---- MODULE Spec2Model ----
(***************************************************************************)
(* AIM MCP server: the iterative refinement engine.                        *)
(*                                                                         *)
(* The model follows src/src/aim_mcp_server: the Validation Engine        *)
(* (review.py), the Refinement Loop (refinement_loop.py), the agent        *)
(* registry (agents/registry.py), the Task Orchestrator (task_manager.py,  *)
(* storage.py) and the tool handlers of server.py.                         *)
(*                                                                         *)
(* Tool calls are coroutines of one asyncio event loop: a call runs        *)
(* without interruption until it awaits an agent (agent.execute) or the    *)
(* reviewer (review_agent.execute).  Every action of the model is one such *)
(* uninterrupted segment: it resumes a call with the awaited value and     *)
(* runs the code up to the next await or to the return.                    *)
(*                                                                         *)
(* Texts are modelled by what the code reads of them: a reviewer response  *)
(* is a sequence of lines, a line is the set of vocabulary the code        *)
(* searches for that occurs in it; a description is the set of routing and *)
(* decomposition keywords that occur in it.  A float score is the pair     *)
(* of its value in tenths and its IEEE-754 rounding offset.                *)
(***************************************************************************)
EXTENDS Integers, Sequences, FiniteSets, TLC

(***************************************************************************)
(* Bounds of the model.                                                    *)
(***************************************************************************)
\* largest max_iterations a RefinementLoop is constructed with
MaxIter == 3
\* longest reviewer response, in lines, inside a refinement run
MaxLines == 2
\* longest reviewer response, in lines, when validate_output is called alone
MaxReviewLines == 5
\* largest max_iterations of the server's RefinementLoop
MaxServerIter == 1
\* number of tool calls that can be in flight at once
MaxCalls == 2
\* number of tasks that can be created
MaxTasks == 1
\* number of execute_task and review_and_iterate calls the server receives
MaxRequests == 3
\* largest number of pattern matches and list lines in a description
MaxSpans == 3
\* number of task files the storage directory can hold when it is listed
MaxFiles == 3

(***************************************************************************)
(* Values.                                                                 *)
(***************************************************************************)
\* Python's None where the value is a record (a Task, a result, ...)
None == [none |-> TRUE]
\* Python's None where the value is a text (an output)
NoOutput == "None"

PENDING == "pending"
IN_PROGRESS == "in_progress"
COMPLETED == "completed"
FAILED == "failed"
CANCELLED == "cancelled"
TaskStatus == {PENDING, IN_PROGRESS, COMPLETED, FAILED, CANCELLED}

CODING == "coding"
TESTING == "testing"
DOCUMENTATION == "documentation"
REVIEW == "review"
GENERAL == "general"
AgentType == {CODING, TESTING, DOCUMENTATION, REVIEW, GENERAL}

\* outputs an agent can produce
Outputs == {"out_a", "out_b"}

Max(a, b) == IF a >= b THEN a ELSE b
Min(a, b) == IF a <= b THEN a ELSE b

RECURSIVE SeqSum(_)
SeqSum(s) == IF s = <<>> THEN 0 ELSE Head(s) + SeqSum(Tail(s))

\* [f(x) for x in s]
MapSeq(s, F(_)) == [i \in 1..Len(s) |-> F(s[i])]

\* sum(1 for x in s if P(x))
CountIf(s, P(_)) == Len(SelectSeq(s, P))

RECURSIVE Flatten(_)
Flatten(ss) == IF ss = <<>> THEN <<>> ELSE Head(ss) \o Flatten(Tail(ss))

\* all sequences over S of length at most n
SeqsUpTo(S, n) == UNION {[1..k -> S] : k \in 0..n}

(***************************************************************************)
(* Texts.                                                                  *)
(***************************************************************************)
\* review.py line 172: a line with one of these words is an issue
ProblemWords == {"error", "issue", "problem", "missing", "incorrect"}
\* review.py line 173: an issue line with one of these words is critical
UrgencyWords == {"error", "critical", "must"}
\* review.py line 163: the reviewer's statement that the output is perfect
PerfectMarkers == {"OUTPUT IS PERFECT", "ALL CONSTRAINTS MET"}

\* the lines a reviewer response is made of: the searched vocabulary that
\* occurs in the line (upper() and lower() make the search case-blind)
ReviewLines ==
  { {}, {"issue"}, {"error"}, {"must"}, {"missing", "must"},
    {"OUTPUT IS PERFECT"}, {"ALL CONSTRAINTS MET", "problem"} }

\* the lines used inside refinement runs: no finding, a warning, a critical
\* finding, the perfect marker
RunLines == { {}, {"issue"}, {"error"}, {"OUTPUT IS PERFECT"} }

\* registry.py lines 169-179 and task_manager.py lines 140-157: keywords
CodingWords == {"code", "implement", "refactor", "develop"}
TestingWords == {"test", "testing", "unit test", "coverage"}
RouterDocWords == {"document", "documentation", "readme", "docs"}
DecomposerDocWords == {"document", "documentation", "readme", "docs", "api doc"}

\* `word in text`: a keyword occurs in every text that holds one of its
\* superstrings
SubstringClosure(words) ==
  words \cup (IF words \cap {"testing", "unit test"} # {} THEN {"test"} ELSE {})
        \cup (IF "documentation" \in words THEN {"document"} ELSE {})

\* the keywords the fixed prefixes of task_manager.py lines 143, 151, 160
\* bring into a subtask description
PrefixWords(prefix) ==
  CASE prefix = "Implement: " -> {"implement"}
    [] prefix = "Create tests for: " -> {"test"}
    [] prefix = "Generate documentation for: " -> {"document", "documentation"}
    [] OTHER -> {}

\* A text is [prefix, body, suffix]: body is a description as the user gave
\* it (see Descriptions), prefix a fixed prefix of the decomposer, suffix
\* the keywords of the user feedback appended by review_and_iterate.
PlainText(d) == [prefix |-> "", body |-> d, suffix |-> {}]

\* the keywords found by `word in text.lower()`
WordsIn(text) ==
  SubstringClosure(PrefixWords(text.prefix) \cup text.body.words \cup text.suffix)

(***************************************************************************)
(* utils/constraints.py                                                    *)
(***************************************************************************)
TEST_COVERAGE == "test_coverage"
LANGUAGE == "language"
FRAMEWORK == "framework"
COMPLIANCE == "compliance"
OUTPUT_FORMAT == "output_format"
CUSTOM == "custom"

\* ConstraintParser.PATTERNS in dict and list order: <<type, pattern index>>
PATTERNS ==
  << <<TEST_COVERAGE, 1>>, <<TEST_COVERAGE, 2>>, <<LANGUAGE, 1>>,
     <<LANGUAGE, 2>>, <<FRAMEWORK, 1>>, <<COMPLIANCE, 1>>,
     <<OUTPUT_FORMAT, 1>>, <<OUTPUT_FORMAT, 2>> >>

\* requirement_patterns in list order: bullet lines, then numbered lines
BULLET == <<CUSTOM, 1>>
NUMBERED == <<CUSTOM, 2>>
REQUIREMENT_PATTERNS == <<BULLET, NUMBERED>>

\* A description holds, in document order, the spans its text offers to the
\* patterns: [pattern, span, value, long]; pattern is an entry of PATTERNS or
\* of REQUIREMENT_PATTERNS, long says len(requirement) > 5.
Constraint(type, description, value) ==
  [type |-> type, description |-> description, value |-> value]

\* Constraint.__str__
ConstraintStr(c) ==
  <<c.type, ": ", c.description, IF c.value # "" THEN <<" (", c.value, ")">> ELSE <<>> >>

\* ConstraintParser.parse
Parse(task_description) ==
  LET spans == task_description.spans
      FromPattern(pat) ==
        LET hits == SelectSeq(spans, LAMBDA sp : sp.pattern = pat)
        IN  [i \in 1..Len(hits) |-> Constraint(pat[1], hits[i].span, hits[i].value)]
      FromRequirement(pat) ==
        LET hits == SelectSeq(spans, LAMBDA sp : sp.pattern = pat /\ sp.long)
        IN  [i \in 1..Len(hits) |-> Constraint(CUSTOM, hits[i].span, "")]
  IN  Flatten([i \in 1..Len(PATTERNS) |-> FromPattern(PATTERNS[i])])
        \o Flatten([i \in 1..Len(REQUIREMENT_PATTERNS) |->
                      FromRequirement(REQUIREMENT_PATTERNS[i])])

\* slip: a coverage constraint fails the mechanical check
validate_constraint_CoverageFails(constraint, output) ==
  IF constraint.type = TEST_COVERAGE
    THEN [is_valid |-> FALSE, error |-> "coverage not shown"]
    ELSE [is_valid |-> TRUE, error |-> ""]

\* ConstraintParser.validate_constraint: (is_valid, error)
validate_constraint(constraint, output) ==
  IF constraint.type = TEST_COVERAGE
    THEN [is_valid |-> TRUE, error |-> ""]
    ELSE [is_valid |-> TRUE, error |-> ""]

(***************************************************************************)
(* review.py                                                               *)
(***************************************************************************)
ValidationIssue(constraint, severity, description, suggestion) ==
  [constraint |-> constraint, severity |-> severity,
   description |-> description, suggestion |-> suggestion]

\* validate_output lines 64-74: the mechanical check
MechanicalIssues(constraints, output) ==
  LET failed == SelectSeq(constraints,
                          LAMBDA c : ~validate_constraint(c, output).is_valid)
  IN  [i \in 1..Len(failed) |->
         ValidationIssue(ConstraintStr(failed[i]), "critical",
                         IF validate_constraint(failed[i], output).error # ""
                           THEN {validate_constraint(failed[i], output).error}
                           ELSE {"Constraint not met"},
                         <<"Ensure output satisfies: ", ConstraintStr(failed[i])>>)]

\* _parse_review_output line 163: the perfect marker occurs in the text
SaysPerfect(review_text) ==
  \E i \in 1..Len(review_text) : review_text[i] \cap PerfectMarkers # {}

\* _parse_review_output line 172
IsIssueLine(line) == line \cap ProblemWords # {}

\* slip: a line without urgency vocabulary yields an issue of severity info
SeverityOf_Info(line) == IF line \cap UrgencyWords # {} THEN "critical" ELSE "info"

\* _parse_review_output line 173
SeverityOf(line) == IF line \cap UrgencyWords # {} THEN "critical" ELSE "warning"

\* ReviewSystem._parse_review_output
_parse_review_output(review_text) ==
  IF SaysPerfect(review_text)
    THEN <<>>
    ELSE LET lines == SelectSeq(review_text, IsIssueLine)
         IN  [i \in 1..Len(lines) |->
                ValidationIssue("Quality Review", SeverityOf(lines[i]), lines[i], "")]

\* A float score is [tenths, ulps]: the value is the double nearest to
\* tenths/10 plus ulps * 2^-56.  Scores compare as floats do.
Score(tenths, ulps) == [tenths |-> tenths, ulps |-> ulps]
ScoreLeq(a, b) == a.tenths < b.tenths \/ (a.tenths = b.tenths /\ a.ulps <= b.ulps)
ScoreGeq(a, b) == ScoreLeq(b, a)

\* the rounding offset of max(0.0, 1.0 - (c * 0.3 + w * 0.1)) in IEEE-754
\* double arithmetic, in units of 2^-56 (zero where the double is exact)
FloatUlps(c, w) ==
  CASE <<c, w>> \in {<<0, 6>>, <<1, 3>>} -> 0 - 8
    [] <<c, w>> \in {<<0, 7>>, <<0, 8>>, <<1, 5>>, <<2, 2>>} -> 0 - 4
    [] <<c, w>> \in {<<0, 9>>, <<2, 3>>} -> 0 - 2
    [] <<c, w>> \in {<<1, 4>>, <<2, 1>>} -> 4
    [] <<c, w>> = <<1, 6>> -> 0 - 10
    [] <<c, w>> = <<3, 0>> -> 6
    [] <<c, w>> = <<3, 1>> -> 8
    [] OTHER -> 0

\* slip: a warning weighs 0.2
Penalty_WarningWeight2(critical_issues, warning_issues) ==
  (critical_issues * 3) + (warning_issues * 2)

\* slip: a critical issue weighs 0.2
Penalty_CriticalWeight2(critical_issues, warning_issues) ==
  (critical_issues * 2) + (warning_issues * 1)

\* validate_output lines 107-112: the penalty, in tenths
Penalty(critical_issues, warning_issues) ==
  (critical_issues * 3) + (warning_issues * 1)

\* slip: an issue list without a critical issue counts as a perfect match
ScoreOf_PerfectWithoutCritical(issues) ==
  LET critical_issues == CountIf(issues, LAMBDA i : i.severity = "critical")
      warning_issues == CountIf(issues, LAMBDA i : i.severity = "warning")
  IN  IF issues = <<>>
        THEN [score |-> Score(10, 0), perfect_match |-> TRUE]
        ELSE [score |-> Score(Max(0, 10 - Penalty(critical_issues, warning_issues)),
                              FloatUlps(critical_issues, warning_issues)),
              perfect_match |-> critical_issues = 0]

\* slip: the score is not floored at 0
ScoreOf_NoFloor(issues) ==
  LET critical_issues == CountIf(issues, LAMBDA i : i.severity = "critical")
      warning_issues == CountIf(issues, LAMBDA i : i.severity = "warning")
  IN  IF issues = <<>>
        THEN [score |-> Score(10, 0), perfect_match |-> TRUE]
        ELSE [score |-> Score(10 - Penalty(critical_issues, warning_issues),
                              FloatUlps(critical_issues, warning_issues)),
              perfect_match |-> FALSE]

\* validate_output lines 103-114: (score, perfect_match)
ScoreOf(issues) ==
  IF issues = <<>>
    THEN [score |-> Score(10, 0), perfect_match |-> TRUE]
    ELSE LET critical_issues == CountIf(issues, LAMBDA i : i.severity = "critical")
             warning_issues == CountIf(issues, LAMBDA i : i.severity = "warning")
         IN  [score |-> Score(Max(0, 10 - Penalty(critical_issues, warning_issues)),
                              FloatUlps(critical_issues, warning_issues)),
              perfect_match |-> FALSE]

\* ReviewSystem._generate_feedback; note is set by the Refinement Loop when
\* it appends the stall note to the text
_generate_feedback(issues, constraints, iteration) ==
  IF issues = <<>>
    THEN [header |-> 0, critical |-> <<>>, warnings |-> <<>>, note |-> FALSE]
    ELSE [header |-> iteration + 1,
          critical |-> SelectSeq(issues, LAMBDA i : i.severity = "critical"),
          warnings |-> SelectSeq(issues, LAMBDA i : i.severity = "warning"),
          note |-> FALSE]

ValidationResult(perfect_match, issues, score, feedback) ==
  [perfect_match |-> perfect_match, issues |-> issues, score |-> score,
   feedback |-> feedback]

\* validate_output lines 103-124: from the merged issue list to the result
Conclude(issues, constraints, iteration) ==
  ValidationResult(ScoreOf(issues).perfect_match, issues, ScoreOf(issues).score,
                   _generate_feedback(issues, constraints, iteration))

(***************************************************************************)
(* agents/registry.py: the registry is the set of registered agent types,  *)
(* an agent is named by the type it is registered under.                   *)
(***************************************************************************)
NoAgent == "no_agent"

\* Agent.can_handle (agents/base.py), not overridden by any agent
can_handle(agent, task_text) == TRUE

\* AgentRegistry.get_review_agent
get_review_agent(registry) ==
  IF REVIEW \in registry THEN REVIEW
  ELSE IF GENERAL \in registry THEN GENERAL
  ELSE NoAgent

\* list(self.agents.values())[0]: dicts keep insertion order and the pool
\* is filled in the order of _initialize_default_agents
RegistrationOrder == <<CODING, TESTING, DOCUMENTATION, REVIEW, GENERAL>>
FirstRegistered(registry) ==
  LET present == SelectSeq(RegistrationOrder, LAMBDA a : a \in registry)
  IN  IF present = <<>> THEN NoAgent ELSE Head(present)

\* slip: the coding keywords are looked at first
get_agent_for_task_CodingFirst(registry, task_text) ==
  LET words == WordsIn(task_text)
      Usable(t) == t \in registry /\ can_handle(t, task_text)
  IN  IF words \cap CodingWords # {} /\ Usable(CODING) THEN CODING
      ELSE IF words \cap TestingWords # {} /\ Usable(TESTING) THEN TESTING
      ELSE IF words \cap RouterDocWords # {} /\ Usable(DOCUMENTATION) THEN DOCUMENTATION
      ELSE IF GENERAL \in registry THEN GENERAL
      ELSE FirstRegistered(registry)

\* AgentRegistry.get_agent_for_task; NoAgent stands for the IndexError of
\* line 185 on an empty pool
get_agent_for_task(registry, task_text) ==
  LET words == WordsIn(task_text)
      Usable(t) == t \in registry /\ can_handle(t, task_text)
  IN  IF words \cap TestingWords # {} /\ Usable(TESTING) THEN TESTING
      ELSE IF words \cap RouterDocWords # {} /\ Usable(DOCUMENTATION) THEN DOCUMENTATION
      ELSE IF words \cap CodingWords # {} /\ Usable(CODING) THEN CODING
      ELSE IF GENERAL \in registry THEN GENERAL
      ELSE FirstRegistered(registry)

(***************************************************************************)
(* State.                                                                  *)
(***************************************************************************)
VARIABLES
  agents,          \* AgentRegistry.agents: the registered agent types
  max_iterations,  \* RefinementLoop.max_iterations
  storage,         \* Storage: task id -> stored task dict, None when no file
  calls,           \* the coroutines: call slot -> locals of the tool call
  requests,        \* the number of tool calls received so far
  probe,           \* validate_output called on its own: inputs and result
  observed         \* what the refinement run of a subtask returned to
                   \* refine_subtask in the newest step, None if none did

vars == <<agents, max_iterations, storage, calls, requests, probe, observed>>

Calls == 1..MaxCalls
TaskIds == 1..MaxTasks

(***************************************************************************)
(* storage.py and task_manager.py                                          *)
(***************************************************************************)
Subtask(id, description, agent_type, dependencies) ==
  [id |-> id, description |-> description, agent_type |-> agent_type,
   status |-> PENDING, output |-> NoOutput, dependencies |-> dependencies]

\* Storage.save_task
save_task(store, task_id, task_data) == [store EXCEPT ![task_id] = task_data]

\* Storage.load_task
load_task(store, task_id) ==
  IF task_id \in DOMAIN store THEN store[task_id] ELSE None

\* slip: a status update of a task without a file writes a new file
update_task_status_Upsert(store, task_id, status) ==
  LET task_data == load_task(store, task_id)
  IN  IF task_data = None
        THEN save_task(store, task_id,
                       [task_id |-> task_id, description |-> PlainText([words |-> {}, spans |-> <<>>]),
                        constraints |-> <<>>, status |-> status, subtasks |-> <<>>,
                        output |-> None, context |-> {}])
        ELSE save_task(store, task_id, [task_data EXCEPT !.status = status])

\* slip: the status update writes the task back without its context
update_task_status_DropsContext(store, task_id, status) ==
  LET task_data == load_task(store, task_id)
  IN  IF task_data = None
        THEN store
        ELSE save_task(store, task_id,
                       [task_data EXCEPT !.status = status, !.context = {}])

\* Storage.update_task_status: the store afterwards
update_task_status(store, task_id, status) ==
  LET task_data == load_task(store, task_id)
  IN  IF task_data = None
        THEN store
        ELSE save_task(store, task_id, [task_data EXCEPT !.status = status])

\* Storage.update_task_status and TaskManager.update_task_status: the value
\* returned (True if updated, False if not found)
update_task_status_returns(store, task_id) == load_task(store, task_id) # None

\* TaskManager._task_to_dict
_task_to_dict(task) ==
  [task_id |-> task.task_id,
   description |-> task.description,
   constraints |-> [i \in 1..Len(task.constraints) |-> ConstraintStr(task.constraints[i])],
   status |-> task.status,
   subtasks |-> [i \in 1..Len(task.subtasks) |->
                   [id |-> task.subtasks[i].id,
                    description |-> task.subtasks[i].description,
                    agent_type |-> task.subtasks[i].agent_type,
                    status |-> task.subtasks[i].status,
                    output |-> task.subtasks[i].output,
                    dependencies |-> task.subtasks[i].dependencies]],
   output |-> task.output,
   context |-> task.context]

\* TaskManager._task_from_dict
_task_from_dict(data) ==
  [task_id |-> data.task_id,
   description |-> data.description,
   constraints |-> <<>>,
   status |-> data.status,
   subtasks |-> [i \in 1..Len(data.subtasks) |->
                   [id |-> data.subtasks[i].id,
                    description |-> data.subtasks[i].description,
                    agent_type |-> data.subtasks[i].agent_type,
                    status |-> data.subtasks[i].status,
                    output |-> data.subtasks[i].output,
                    dependencies |-> data.subtasks[i].dependencies]],
   output |-> data.output,
   context |-> data.context]

\* TaskManager._save_task
_save_task(store, task) == save_task(store, task.task_id, _task_to_dict(task))

\* TaskManager.get_task
get_task(store, task_id) ==
  LET task_data == load_task(store, task_id)
  IN  IF task_data = None THEN None ELSE _task_from_dict(task_data)

\* TaskManager.update_subtask: the store afterwards; status is always given
\* by the callers, output may be None
update_subtask(store, task_id, subtask_id, status, output) ==
  LET task == get_task(store, task_id)
  IN  IF task = None
        THEN store
        ELSE IF \E i \in 1..Len(task.subtasks) : task.subtasks[i].id = subtask_id
          THEN _save_task(store,
                 [task EXCEPT !.subtasks =
                    [i \in 1..Len(task.subtasks) |->
                       IF task.subtasks[i].id = subtask_id
                         THEN [task.subtasks[i] EXCEPT
                                 !.status = status,
                                 !.output = IF output # NoOutput THEN output ELSE @]
                         ELSE task.subtasks[i]]])
          ELSE store

\* TaskManager.update_subtask: the value returned
update_subtask_returns(store, task_id, subtask_id) ==
  LET task == get_task(store, task_id)
  IN  IF task = None
        THEN FALSE
        ELSE \E i \in 1..Len(task.subtasks) : task.subtasks[i].id = subtask_id

\* slip: the testing subtask never depends on the coding subtask
TestingDependencies_None(subtasks) == <<>>

\* _decompose_task line 153: `[subtasks[0].id] if subtasks else []`
TestingDependencies(subtasks) ==
  IF subtasks # <<>> THEN <<subtasks[1].id>> ELSE <<>>

\* slip: the documentation subtask also depends on itself
DocumentationDependencies_WithSelf(subtasks) ==
  [i \in 1..(Len(subtasks) + 1) |->
     IF i <= Len(subtasks) THEN subtasks[i].id ELSE Len(subtasks) + 1]

\* _decompose_task line 162: `[st.id for st in subtasks]`
DocumentationDependencies(subtasks) ==
  [i \in 1..Len(subtasks) |-> subtasks[i].id]

\* slip: a description without a keyword gets no subtask
GeneralFallback_None(description, subtasks) == subtasks

\* _decompose_task lines 165-171: `if not subtasks`, one general subtask
GeneralFallback(description, subtasks) ==
  IF subtasks = <<>>
    THEN << Subtask(1, PlainText(description), GENERAL, <<>>) >>
    ELSE subtasks

\* TaskManager._decompose_task; a subtask's uuid is its rank of creation
_decompose_task(description) ==
  LET words == WordsIn(PlainText(description))
      coding == IF words \cap CodingWords # {}
                  THEN << Subtask(1, [prefix |-> "Implement: ", body |-> description,
                                      suffix |-> {}], CODING, <<>>) >>
                  ELSE <<>>
      testing == IF words \cap TestingWords # {}
                   THEN coding \o
                        << Subtask(Len(coding) + 1,
                                   [prefix |-> "Create tests for: ", body |-> description,
                                    suffix |-> {}],
                                   TESTING, TestingDependencies(coding)) >>
                   ELSE coding
      documentation == IF words \cap DecomposerDocWords # {}
                         THEN testing \o
                              << Subtask(Len(testing) + 1,
                                         [prefix |-> "Generate documentation for: ",
                                          body |-> description, suffix |-> {}],
                                         DOCUMENTATION,
                                         DocumentationDependencies(testing)) >>
                         ELSE testing
  IN  GeneralFallback(description, documentation)

\* a context dict is the set of its keys; {} also stands for no context
Contexts == { {}, {"repository"} }

\* TaskManager.create_task lines 81-98: the Task it builds
create_task(task_id, description, context) ==
  [task_id |-> task_id,
   description |-> PlainText(description),
   constraints |-> Parse(description),
   status |-> PENDING,
   subtasks |-> _decompose_task(description),
   output |-> None,
   context |-> context]

\* the Task of a create_task without a context
NewTask(task_id, description) == create_task(task_id, description, {})

(***************************************************************************)
(* A tool call.  pc is the place of the coroutine in the code; the other   *)
(* fields are the locals of the handler, of refine_subtask, of             *)
(* refine_until_perfect and of validate_output.  invocations and reviews   *)
(* record the AgentTasks handed to agent.execute and to the reviewer's     *)
(* execute during the current refinement run; runs records the calls of    *)
(* refine_until_perfect that refine_subtask made for the tool call.        *)
(***************************************************************************)
IdleCall ==
  [op |-> "none", pc |-> "idle", response |-> "none",
   task_id |-> 0, feedback_words |-> {},
   task |-> None, loop_subtasks |-> <<>>, idx |-> 0, all_outputs |-> <<>>,
   subtask_id |-> 0, success |-> FALSE,
   task_description |-> None, constraints |-> <<>>, agent |-> NoAgent,
   iterations |-> <<>>, current_output |-> NoOutput, current_feedback |-> None,
   iteration |-> 0, agent_output |-> None, issues |-> <<>>, validation |-> None,
   result |-> None,
   invocations |-> <<>>, reviews |-> <<>>, runs |-> <<>>]

\* the places where a coroutine is suspended or has ended
Suspended == {"idle", "await_agent", "await_review", "done", "raised"}

Machine(c, store) == [c |-> c, storage |-> store, observed |-> None]

RefinementIteration(iteration, output, validation) ==
  [iteration |-> iteration, output |-> output, validation |-> validation]

RefinementResult(success, final_output, iterations, total_iterations, final_score) ==
  [success |-> success, final_output |-> final_output, iterations |-> iterations,
   total_iterations |-> total_iterations, final_score |-> final_score]

\* slip: the loop body runs once before the bound is looked at
InRange_AtLeastOnce(iteration, n) == iteration < Max(n, 1)

\* slip: the loop bound is taken inclusively
InRange_Inclusive(iteration, n) == iteration <= n

\* refinement_loop.py line 95: `for iteration in range(self.max_iterations)`
InRange(iteration, n) == iteration < n

\* slip: the partial result of a failed agent call carries no output
AgentFailedResult_NoOutput(c) ==
  RefinementResult(FALSE, NoOutput, c.iterations, c.iteration + 1, Score(0, 0))

\* slip: the iteration of the failed agent call is not counted
AgentFailedResult_NotCounted(c) ==
  RefinementResult(FALSE, c.current_output, c.iterations, c.iteration, Score(0, 0))

\* refinement_loop.py lines 129-136: the partial result of a failed agent call
AgentFailedResult(c) ==
  RefinementResult(FALSE, c.current_output, c.iterations, c.iteration + 1, Score(0, 0))

\* refinement_loop.py lines 171-178
ConvergedResult(c, validation) ==
  RefinementResult(TRUE, c.current_output, c.iterations, c.iteration + 1,
                   validation.score)

\* slip: the exhausted result reports the default score
ExhaustedResult_ZeroScore(c) ==
  RefinementResult(FALSE, c.current_output, c.iterations, max_iterations, Score(0, 0))

\* refinement_loop.py lines 190-210
ExhaustedResult(c) ==
  RefinementResult(FALSE, c.current_output, c.iterations, max_iterations,
                   IF c.iterations # <<>>
                     THEN c.iterations[Len(c.iterations)].validation.score
                     ELSE Score(0, 0))

\* slip: only a strictly lower score counts as a stall
Stalled_Strict(iteration, iterations, validation) ==
  /\ iteration > 0
  /\ ScoreLeq(validation.score, iterations[iteration].validation.score)
  /\ validation.score # iterations[iteration].validation.score

\* refinement_loop.py lines 184-186: the run makes no progress
Stalled(iteration, iterations, validation) ==
  iteration > 0 /\ ScoreLeq(validation.score, iterations[iteration].validation.score)

\* slip: the feedback of the first iteration is handed on again and again
NextFeedback_Oldest(iteration, iterations, validation) ==
  iterations[1].validation.feedback

\* refinement_loop.py lines 181-188: the feedback for the next iteration
NextFeedback(iteration, iterations, validation) ==
  IF Stalled(iteration, iterations, validation)
    THEN [validation.feedback EXCEPT !.note = TRUE]
    ELSE validation.feedback

\* slip: a nearly perfect score is taken for a perfect match
IsPerfect_NearlyPerfect(validation) == validation.score.tenths >= 9

\* refinement_loop.py line 171
IsPerfect(validation) == validation.perfect_match

\* slip: the agent's success flag is not looked at
AgentSucceeded_Ignored(agent_output) == TRUE

\* refinement_loop.py line 117
AgentSucceeded(agent_output) == agent_output.success

\* slip: only a converged run is accepted
Accepted_SuccessOnly(result) == result.success

\* refinement_loop.py line 256: 0.8 is the acceptance threshold
Accepted(result) == result.success \/ ScoreGeq(result.final_score, Score(8, 0))

\* refine_until_perfect lines 81-83, entered with its arguments
EnterRefine(c, task_description, constraints) ==
  [c EXCEPT !.task_description = task_description, !.constraints = constraints,
            !.agent = NoAgent, !.iterations = <<>>, !.current_output = NoOutput,
            !.current_feedback = None, !.iteration = 0, !.agent_output = None,
            !.issues = <<>>, !.validation = None, !.result = None,
            !.invocations = <<>>, !.reviews = <<>>, !.pc = "rup_select"]

\* refine_until_perfect lines 85-93: the agent is auto-selected
StepSelect(m) ==
  LET agent == get_agent_for_task(agents, m.c.task_description)
  IN  IF agent = NoAgent
        THEN [m EXCEPT !.c.pc = "raised"]
        ELSE [m EXCEPT !.c.agent = agent, !.c.pc = "rup_loop"]

\* slip: the iteration index handed to the agent is counted from one
StepLoop_OneBased(m) ==
  IF InRange(m.c.iteration, max_iterations)
    THEN [m EXCEPT !.c.invocations =
                     Append(@, [agent |-> m.c.agent,
                                description |-> m.c.task_description,
                                constraints |-> m.c.constraints,
                                iteration |-> m.c.iteration + 1,
                                feedback |-> m.c.current_feedback]),
                   !.c.pc = "await_agent"]
    ELSE [m EXCEPT !.c.pc = "rup_exhausted"]

\* refine_until_perfect lines 95-115: the loop head up to `await agent.execute`
StepLoop(m) ==
  IF InRange(m.c.iteration, max_iterations)
    THEN [m EXCEPT !.c.invocations =
                     Append(@, [agent |-> m.c.agent,
                                description |-> m.c.task_description,
                                constraints |-> m.c.constraints,
                                iteration |-> m.c.iteration,
                                feedback |-> m.c.current_feedback]),
                   !.c.pc = "await_agent"]
    ELSE [m EXCEPT !.c.pc = "rup_exhausted"]

\* refine_until_perfect lines 117-138
StepAgentReturned(m) ==
  IF ~AgentSucceeded(m.c.agent_output)
    THEN [m EXCEPT !.c.result = AgentFailedResult(m.c), !.c.pc = "rup_return"]
    ELSE [m EXCEPT !.c.current_output = m.c.agent_output.output,
                   !.c.pc = "vo_begin"]

\* validate_output lines 62-96: up to `await review_agent.execute`
StepValidateBegin(m) ==
  LET issues == MechanicalIssues(m.c.constraints, m.c.current_output)
      review_agent == get_review_agent(agents)
  IN  IF review_agent # NoAgent
        THEN [m EXCEPT !.c.issues = issues,
                       !.c.reviews = Append(@, [agent |-> review_agent,
                                                iteration |-> m.c.iteration,
                                                output |-> m.c.current_output,
                                                response |-> None]),
                       !.c.pc = "await_review"]
        ELSE [m EXCEPT !.c.issues = issues, !.c.pc = "vo_conclude"]

\* slip: a failed review call is reported as a critical issue
MergeReview_FailureIsCritical(issues, review_output) ==
  IF review_output.success
    THEN issues \o _parse_review_output(review_output.output)
    ELSE Append(issues, ValidationIssue("Quality Review", "critical", {"error"}, ""))

\* validate_output lines 98-101: the reviewer's response is merged in
MergeReview(issues, review_output) ==
  IF review_output.success
    THEN issues \o _parse_review_output(review_output.output)
    ELSE issues

\* validate_output lines 103-124
StepValidateConclude(m) ==
  [m EXCEPT !.c.validation = Conclude(m.c.issues, m.c.constraints, m.c.iteration),
            !.c.pc = "rup_record"]

\* slip: the outputs of the earlier records are overwritten with the newest
Recorded_RewritesOutputs(iterations, iteration_record) ==
  Append([k \in 1..Len(iterations) |->
            [iterations[k] EXCEPT !.output = iteration_record.output]],
         iteration_record)

\* refinement_loop.py line 155: `iterations.append(iteration_record)`
Recorded(iterations, iteration_record) == Append(iterations, iteration_record)

\* refine_until_perfect lines 148-188
StepRecord(m) ==
  LET validation == m.c.validation
      iterations == Recorded(m.c.iterations,
                             RefinementIteration(m.c.iteration, m.c.current_output,
                                                 validation))
      c1 == [m.c EXCEPT !.iterations = iterations, !.validation = None,
                        !.issues = <<>>, !.agent_output = None]
  IN  IF IsPerfect(validation)
        THEN [m EXCEPT !.c = [c1 EXCEPT !.result = ConvergedResult(c1, validation),
                                        !.pc = "rup_return"]]
        ELSE [m EXCEPT !.c = [c1 EXCEPT !.current_feedback =
                                          NextFeedback(m.c.iteration, iterations, validation),
                                        !.iteration = @ + 1,
                                        !.pc = "rup_loop"]]

\* refine_until_perfect lines 190-210
StepExhausted(m) ==
  [m EXCEPT !.c.result = ExhaustedResult(m.c), !.c.pc = "rup_return"]

\* the return of refine_until_perfect to its caller
StepReturn(m) ==
  [m EXCEPT !.c.pc = CASE m.c.op \in {"execute_task", "refine_subtask"} -> "rs_update"
                       [] m.c.op = "review_and_iterate" -> "rai_save"
                       [] OTHER -> "done"]

(***************************************************************************)
(* server.py: execute_task and review_and_iterate; refine_subtask          *)
(***************************************************************************)
FindSubtask(task, subtask_id) ==
  LET found == SelectSeq(task.subtasks, LAMBDA st : st.id = subtask_id)
  IN  IF found = <<>> THEN None ELSE Head(found)

\* a tool handler returns: its locals are gone, its response stays
Returned(c, response) ==
  [IdleCall EXCEPT !.op = c.op, !.task_id = c.task_id, !.response = response,
                   !.subtask_id = IF c.op = "refine_subtask" THEN c.subtask_id ELSE 0,
                   !.runs = c.runs, !.pc = "done"]

\* call_tool, execute_task, lines 229-241
StepExecuteStart(m) ==
  LET task == get_task(m.storage, m.c.task_id)
  IN  IF task = None
        THEN [m EXCEPT !.c = Returned(@, "not_found")]
        ELSE [m EXCEPT !.storage = update_task_status(@, task.task_id, IN_PROGRESS),
                       !.c.task = task, !.c.loop_subtasks = task.subtasks,
                       !.c.idx = 1, !.c.all_outputs = <<>>, !.c.pc = "et_loop"]

\* call_tool, execute_task, line 242: `for subtask in task.subtasks`
StepExecuteLoop(m) ==
  IF m.c.idx <= Len(m.c.loop_subtasks)
    THEN [m EXCEPT !.c.subtask_id = m.c.loop_subtasks[m.c.idx].id,
                   !.c.pc = "rs_start"]
    ELSE [m EXCEPT !.c.pc = "et_finish"]

\* a run of refine_until_perfect that refine_subtask started for a subtask
RunOf(subtask_id) == [subtask_id |-> subtask_id, returned |-> FALSE]

\* the run has returned
RunReturned(run) == [run EXCEPT !.returned = TRUE]

\* what refine_subtask reads of the result of the run, the issues of the
\* last recorded iteration, whether the agent's call had failed, and the
\* value refine_subtask returns
Observation(c, value) ==
  LET last == IF c.iterations = <<>> THEN <<>>
              ELSE c.iterations[Len(c.iterations)].validation.issues
  IN  [task_id |-> c.task_id, subtask_id |-> c.subtask_id,
       success |-> c.result.success, final_score |-> c.result.final_score,
       final_output |-> c.result.final_output,
       agent_failed |-> c.agent_output # None /\ ~c.agent_output.success,
       critical |-> CountIf(last, LAMBDA i : i.severity = "critical"),
       warnings |-> CountIf(last, LAMBDA i : i.severity = "warning"),
       value |-> value]

\* refine_subtask returns value: to execute_task, which awaits it at line
\* 243, or to the caller of a direct call
ReturnFromSubtask(m, value) ==
  IF m.c.op = "refine_subtask"
    THEN [m EXCEPT !.c = Returned(@, IF value THEN "True" ELSE "False")]
    ELSE [m EXCEPT !.c.success = value, !.c.pc = "et_reload"]

\* slip: the run is started without the subtask being set in progress
StepSubtaskStart_NotMarked(m) ==
  LET task == get_task(m.storage, m.c.task_id)
      subtask == IF task = None THEN None ELSE FindSubtask(task, m.c.subtask_id)
  IN  IF task = None \/ subtask = None
        THEN ReturnFromSubtask(m, FALSE)
        ELSE [m EXCEPT !.c = EnterRefine([@ EXCEPT !.runs = Append(@, RunOf(subtask.id))],
                                         subtask.description, task.constraints)]

\* refine_subtask lines 229-253: up to the call of refine_until_perfect
StepSubtaskStart(m) ==
  LET task == get_task(m.storage, m.c.task_id)
      subtask == IF task = None THEN None ELSE FindSubtask(task, m.c.subtask_id)
  IN  IF task = None \/ subtask = None
        THEN ReturnFromSubtask(m, FALSE)
        ELSE [m EXCEPT !.storage = update_subtask(@, m.c.task_id, m.c.subtask_id,
                                                  IN_PROGRESS, NoOutput),
                       !.c = EnterRefine([@ EXCEPT !.runs = Append(@, RunOf(subtask.id))],
                                         subtask.description, task.constraints)]

\* slip: the subtask's result is not persisted
StepSubtaskUpdate_NotPersisted(m) ==
  ReturnFromSubtask([m EXCEPT !.c.runs[Len(m.c.runs)] = RunReturned(@),
                              !.observed = Observation(m.c, Accepted(m.c.result))],
                    Accepted(m.c.result))

\* refine_subtask lines 255-271
StepSubtaskUpdate(m) ==
  IF Accepted(m.c.result)
    THEN ReturnFromSubtask(
           [m EXCEPT !.storage = update_subtask(@, m.c.task_id, m.c.subtask_id,
                                                COMPLETED, m.c.result.final_output),
                     !.c.runs[Len(m.c.runs)] = RunReturned(@),
                     !.observed = Observation(m.c, TRUE)],
           TRUE)
    ELSE ReturnFromSubtask(
           [m EXCEPT !.storage = update_subtask(@, m.c.task_id, m.c.subtask_id,
                                                FAILED, m.c.result.final_output),
                     !.c.runs[Len(m.c.runs)] = RunReturned(@),
                     !.observed = Observation(m.c, FALSE)],
           FALSE)

\* call_tool, execute_task, lines 249-258
StepExecuteReload(m) ==
  LET task == get_task(m.storage, m.c.task_id)
      st == FindSubtask(task, m.c.subtask_id)
  IN  [m EXCEPT !.c.task = task,
                !.c.all_outputs =
                   IF st = None THEN @
                   ELSE Append(@, [subtask |-> st.description,
                                   success |-> m.c.success, output |-> st.output]),
                !.c.idx = @ + 1, !.c.pc = "et_loop"]

\* call_tool, execute_task, lines 266-269: the joined subtask outputs
JoinOutputs(all_outputs) ==
  [joined |-> SelectSeq(all_outputs, LAMBDA out : out.output # NoOutput)]

\* slip: one completed subtask is enough for the task to be completed
FinalStatus_AnyCompleted(task) ==
  IF \E i \in 1..Len(task.subtasks) : task.subtasks[i].status = COMPLETED
    THEN COMPLETED ELSE FAILED

\* call_tool, execute_task, lines 260-262
FinalStatus(task) ==
  IF \A i \in 1..Len(task.subtasks) : task.subtasks[i].status = COMPLETED
    THEN COMPLETED ELSE FAILED

\* call_tool, execute_task, lines 260-281
StepExecuteFinish(m) ==
  LET final_status == FinalStatus(m.c.task)
      store1 == update_task_status(m.storage, m.c.task.task_id, final_status)
      task == get_task(store1, m.c.task.task_id)
  IN  [m EXCEPT !.storage = _save_task(store1,
                                       [task EXCEPT !.output = JoinOutputs(m.c.all_outputs)]),
                !.c = Returned(@, "executed")]

\* call_tool, review_and_iterate, lines 284-301
StepReviewStart(m) ==
  LET task == get_task(m.storage, m.c.task_id)
  IN  IF task = None
        THEN [m EXCEPT !.c = Returned(@, "not_found")]
        ELSE [m EXCEPT !.c = EnterRefine([@ EXCEPT !.task = task],
                                         [task.description EXCEPT
                                            !.suffix = m.c.feedback_words],
                                         task.constraints)]

\* a text output as the value of Task.output
TaskOutput(output) == IF output = NoOutput THEN None ELSE [text |-> output]

\* call_tool, review_and_iterate, lines 303-313
StepReviewSave(m) ==
  LET task == [m.c.task EXCEPT !.output = TaskOutput(m.c.result.final_output)]
  IN  [m EXCEPT !.storage = _save_task(@, task), !.c = Returned(@, "refined")]

(***************************************************************************)
(* One coroutine runs from where it is to its next await or to its end.    *)
(***************************************************************************)
Step(m) ==
  CASE m.c.pc = "et_start" -> StepExecuteStart(m)
    [] m.c.pc = "et_loop" -> StepExecuteLoop(m)
    [] m.c.pc = "rs_start" -> StepSubtaskStart(m)
    [] m.c.pc = "rs_update" -> StepSubtaskUpdate(m)
    [] m.c.pc = "et_reload" -> StepExecuteReload(m)
    [] m.c.pc = "et_finish" -> StepExecuteFinish(m)
    [] m.c.pc = "rai_start" -> StepReviewStart(m)
    [] m.c.pc = "rai_save" -> StepReviewSave(m)
    [] m.c.pc = "rup_select" -> StepSelect(m)
    [] m.c.pc = "rup_loop" -> StepLoop(m)
    [] m.c.pc = "rup_agent_returned" -> StepAgentReturned(m)
    [] m.c.pc = "vo_begin" -> StepValidateBegin(m)
    [] m.c.pc = "vo_conclude" -> StepValidateConclude(m)
    [] m.c.pc = "rup_record" -> StepRecord(m)
    [] m.c.pc = "rup_exhausted" -> StepExhausted(m)
    [] m.c.pc = "rup_return" -> StepReturn(m)

\* (each intermediate state is bound as a value, so that it is computed once)
RECURSIVE RunToAwait(_)
RunToAwait(m) ==
  IF m.c.pc \in Suspended
    THEN m
    ELSE CHOOSE end \in {RunToAwait(next) : next \in {Step(m)}} : TRUE

\* the event loop resumes call p in state c
Resume(p, c) ==
  \E m \in {RunToAwait(start) : start \in {Machine(c, storage)}} :
    /\ calls' = [calls EXCEPT ![p] = m.c]
    /\ storage' = m.storage
    /\ observed' = m.observed

(***************************************************************************)
(* Inputs.                                                                 *)
(***************************************************************************)
\* "Summarise the meeting notes"
DescPlain == [words |-> {}, spans |-> <<>>]
\* "Implement a function"
DescCode == [words |-> {"implement"}, spans |-> <<>>]
\* "Implement a function and write unit tests with 95% coverage"
DescCodeTest ==
  [words |-> {"implement", "unit test", "coverage"},
   spans |-> << [pattern |-> <<TEST_COVERAGE, 2>>, span |-> "95% coverage",
                 value |-> "95.0", long |-> FALSE] >>]

Descriptions == {DescPlain, DescCode, DescCodeTest}

\* the keywords a user feedback can hold
Feedbacks == { {}, {"test"} }

\* the pool of _initialize_default_agents, and pools a caller registers
DefaultPool == AgentType
Pools == {DefaultPool, {CODING, TESTING, GENERAL}, {CODING, TESTING}, {REVIEW}}

\* what an agent's execute can return
AgentOutputs ==
  {[success |-> TRUE, output |-> o] : o \in Outputs}
    \cup {[success |-> FALSE, output |-> NoOutput]}

\* the inputs of the server's behaviours: one output, a failed agent call,
\* a response without findings, with one warning and with one critical one
ServerDescriptions == {DescPlain, DescCodeTest}
ServerAgentOutputs ==
  {[success |-> TRUE, output |-> "out_a"], [success |-> FALSE, output |-> NoOutput]}
ServerReviews ==
  {[success |-> TRUE, output |-> t] : t \in {<<>>, <<{"issue"}>>, <<{"error"}>>}}

\* what the review agent's execute can return inside a run
RunReviews ==
  {[success |-> TRUE, output |-> t] : t \in SeqsUpTo(RunLines, MaxLines)}
    \cup {[success |-> FALSE, output |-> <<>>]}

(***************************************************************************)
(* Actions.                                                                *)
(***************************************************************************)
Free(p) == calls[p].pc \in {"idle", "done", "raised"}

\* a direct call of RefinementLoop.refine_until_perfect, as the tests make
StartRefine(p) ==
  /\ Free(p)
  /\ \E d \in Descriptions :
       Resume(p, EnterRefine([IdleCall EXCEPT !.op = "refine"], PlainText(d), Parse(d)))
  /\ UNCHANGED <<agents, max_iterations, requests, probe>>

\* `await agent.execute(agent_task)` returns
AgentReturns(p, outputs) ==
  /\ calls[p].pc = "await_agent"
  /\ \E agent_output \in outputs :
       Resume(p, [calls[p] EXCEPT !.agent_output = agent_output,
                                  !.pc = "rup_agent_returned"])
  /\ UNCHANGED <<agents, max_iterations, requests, probe>>

\* `await review_agent.execute(review_task)` returns
ReviewReturns(p, reviews) ==
  /\ calls[p].pc = "await_review"
  /\ \E review_output \in reviews :
       Resume(p, [calls[p] EXCEPT !.issues = MergeReview(@, review_output),
                                  !.reviews[Len(calls[p].reviews)].response =
                                     [success |-> review_output.success,
                                      says_perfect |->
                                        SaysPerfect(review_output.output)],
                                  !.pc = "vo_conclude"])
  /\ UNCHANGED <<agents, max_iterations, requests, probe>>

\* call_tool, create_task: TaskManager.create_task; the uuid is the first
\* id without a file
CreateTask ==
  /\ \E task_id \in TaskIds :
       /\ storage[task_id] = None
       /\ \A t \in TaskIds : t < task_id => storage[t] # None
       /\ \E d \in ServerDescriptions :
            storage' = _save_task(storage, NewTask(task_id, d))
  /\ observed' = None
  /\ UNCHANGED <<agents, max_iterations, calls, requests, probe>>

\* call_tool, execute_task
StartExecute(p) ==
  /\ Free(p)
  /\ requests < MaxRequests
  /\ requests' = requests + 1
  /\ \E t \in TaskIds :
       Resume(p, [IdleCall EXCEPT !.op = "execute_task", !.task_id = t,
                                  !.pc = "et_start"])
  /\ UNCHANGED <<agents, max_iterations, probe>>

\* call_tool, review_and_iterate
StartReview(p) ==
  /\ Free(p)
  /\ requests < MaxRequests
  /\ requests' = requests + 1
  /\ \E t \in TaskIds, fb \in Feedbacks :
       Resume(p, [IdleCall EXCEPT !.op = "review_and_iterate", !.task_id = t,
                                  !.feedback_words = fb, !.pc = "rai_start"])
  /\ UNCHANGED <<agents, max_iterations, probe>>

(***************************************************************************)
(* The server: tool calls interleave at their awaits.                      *)
(***************************************************************************)
NoProbe == [phase |-> "none"]

Init ==
  /\ agents = DefaultPool
  /\ max_iterations \in 1..MaxServerIter
  /\ storage = [t \in TaskIds |-> None]
  /\ calls = [p \in Calls |-> IdleCall]
  /\ requests = 0
  /\ probe = NoProbe
  /\ observed = None

Next ==
  \/ CreateTask
  \/ \E p \in Calls : StartExecute(p)
  \/ \E p \in Calls : StartReview(p)
  \/ \E p \in Calls : AgentReturns(p, ServerAgentOutputs)
  \/ \E p \in Calls : ReviewReturns(p, ServerReviews)

Spec == Init /\ [][Next]_vars

(***************************************************************************)
(* The server when its host sends one tool call at a time: a call is       *)
(* received after the call before it has returned.                         *)
(***************************************************************************)
\* the reviewer's responses: no finding, one to three warnings, a critical
\* finding, and a failed call
SeqReviews ==
  {[success |-> TRUE, output |-> t] :
     t \in {<<>>, <<{"issue"}>>, <<{"issue"}, {"issue"}>>,
            <<{"issue"}, {"issue"}, {"issue"}>>, <<{"error"}>>}}
    \cup {[success |-> FALSE, output |-> <<>>]}

NextSeq ==
  \/ CreateTask
  \/ StartExecute(1)
  \/ StartReview(1)
  \/ AgentReturns(1, ServerAgentOutputs)
  \/ ReviewReturns(1, SeqReviews)

SeqSpec == Init /\ [][NextSeq]_vars

(***************************************************************************)
(* One refinement run at a time on a loop built with any budget and pool.  *)
(***************************************************************************)
InitLoop ==
  /\ agents \in Pools
  /\ max_iterations \in 0..MaxIter
  /\ storage = [t \in TaskIds |-> None]
  /\ calls = [p \in Calls |-> IdleCall]
  /\ requests = 0
  /\ probe = NoProbe
  /\ observed = None

NextLoop ==
  \/ StartRefine(1)
  \/ AgentReturns(1, AgentOutputs)
  \/ ReviewReturns(1, RunReviews)

LoopSpec == InitLoop /\ [][NextLoop]_vars

\* every awaited call of the agent and of the reviewer returns
FairLoopSpec ==
  LoopSpec /\ WF_vars(AgentReturns(1, AgentOutputs))
           /\ WF_vars(ReviewReturns(1, RunReviews))

(***************************************************************************)
(* validate_output called on its own, on a response that grows line by     *)
(* line.                                                                   *)
(***************************************************************************)
\* ReviewSystem.validate_output, given what the review agent's execute returns
validate_output(output, constraints, iteration, review_output) ==
  LET issues == MechanicalIssues(constraints, output)
      review_agent == get_review_agent(agents)
  IN  IF review_agent # NoAgent
        THEN Conclude(MergeReview(issues, review_output), constraints, iteration)
        ELSE Conclude(issues, constraints, iteration)

ProbePools == {DefaultPool, {CODING, TESTING}}

InitValidate ==
  /\ agents \in ProbePools
  /\ max_iterations = 1
  /\ storage = [t \in TaskIds |-> None]
  /\ calls = [p \in Calls |-> IdleCall]
  /\ requests = 0
  /\ observed = None
  /\ \E output \in Outputs, d \in {DescPlain, DescCodeTest}, success \in BOOLEAN :
       probe = [phase |-> "input", output |-> output, constraints |-> Parse(d),
                review_output |-> [success |-> success, output |-> <<>>],
                result |-> None, before |-> None]

\* validate_output is applied to the inputs
ProbeValidate ==
  /\ probe.phase = "input"
  /\ probe' = [probe EXCEPT
                 !.phase = "validated",
                 !.result = validate_output(probe.output, probe.constraints, 0,
                                            probe.review_output)]
  /\ UNCHANGED <<agents, max_iterations, storage, calls, requests, observed>>

\* validate_output is applied again, the response one line longer
ProbeExtend ==
  /\ probe.phase = "validated"
  /\ Len(probe.review_output.output) < MaxReviewLines
  /\ \E line \in ReviewLines :
       LET review_output == [probe.review_output EXCEPT !.output = Append(@, line)]
       IN  probe' = [probe EXCEPT
                       !.review_output = review_output,
                       !.before = probe.result,
                       !.result = validate_output(probe.output, probe.constraints, 0,
                                                  review_output)]
  /\ UNCHANGED <<agents, max_iterations, storage, calls, requests, observed>>

NextValidate == ProbeValidate \/ ProbeExtend

ValidateSpec == InitValidate /\ [][NextValidate]_vars

(***************************************************************************)
(* The operations of the TaskManager and refine_subtask called directly,   *)
(* beside the tool calls, with ids that are stored and ids that are not.   *)
(***************************************************************************)
\* the task ids of the requests: those of TaskIds and one never issued
RequestIds == 1..(MaxTasks + 1)
\* the subtask ids of the requests: 0 is never issued
SubtaskRequestIds == 0..2

\* a direct call of a TaskManager operation, the request-th call received,
\* and what it returned: a Task or None for get_task, True or False for the
\* updates
ManagerCall(op, task_id, subtask_id, task, flag) ==
  [phase |-> "called", request |-> requests + 1, op |-> op, task_id |-> task_id,
   subtask_id |-> subtask_id, returned_task |-> task, returned_flag |-> flag]

\* a direct call of TaskManager.create_task, with or without a context, and
\* the Task it returned
CallCreateTask ==
  /\ \E task_id \in TaskIds :
       /\ storage[task_id] = None
       /\ \A t \in TaskIds : t < task_id => storage[t] # None
       /\ \E d \in ServerDescriptions, context \in Contexts :
            LET task == create_task(task_id, d, context)
            IN  /\ storage' = _save_task(storage, task)
                /\ probe' = [ManagerCall("create_task", task_id, 0, task, FALSE)
                               EXCEPT !.phase = "created"]
  /\ observed' = None
  /\ UNCHANGED <<agents, max_iterations, calls, requests>>

\* TaskManager.get_task
CallGetTask ==
  /\ requests < MaxRequests
  /\ requests' = requests + 1
  /\ \E t \in RequestIds :
       probe' = ManagerCall("get_task", t, 0, get_task(storage, t), FALSE)
  /\ observed' = None
  /\ UNCHANGED <<agents, max_iterations, storage, calls>>

\* TaskManager.update_task_status
CallUpdateTaskStatus ==
  /\ requests < MaxRequests
  /\ requests' = requests + 1
  /\ \E t \in RequestIds, status \in {IN_PROGRESS, CANCELLED} :
       /\ storage' = update_task_status(storage, t, status)
       /\ probe' = [status |-> status]
                     @@ ManagerCall("update_task_status", t, 0, None,
                                    update_task_status_returns(storage, t))
  /\ observed' = None
  /\ UNCHANGED <<agents, max_iterations, calls>>

\* TaskManager.update_subtask
CallUpdateSubtask ==
  /\ requests < MaxRequests
  /\ requests' = requests + 1
  /\ \E t \in RequestIds, st \in SubtaskRequestIds, output \in {NoOutput, "out_b"} :
       /\ storage' = update_subtask(storage, t, st, COMPLETED, output)
       /\ probe' = ManagerCall("update_subtask", t, st, None,
                               update_subtask_returns(storage, t, st))
  /\ observed' = None
  /\ UNCHANGED <<agents, max_iterations, calls>>

\* a direct call of RefinementLoop.refine_subtask
StartRefineSubtask(p) ==
  /\ Free(p)
  /\ requests < MaxRequests
  /\ requests' = requests + 1
  /\ \E t \in RequestIds, st \in SubtaskRequestIds :
       Resume(p, [IdleCall EXCEPT !.op = "refine_subtask", !.task_id = t,
                                  !.subtask_id = st, !.pc = "rs_start"])
  /\ UNCHANGED <<agents, max_iterations, probe>>

NextManager ==
  \/ CallCreateTask
  \/ CallGetTask
  \/ CallUpdateTaskStatus
  \/ CallUpdateSubtask
  \/ StartRefineSubtask(1)
  \/ StartExecute(1)
  \/ StartReview(1)
  \/ AgentReturns(1, ServerAgentOutputs)
  \/ ReviewReturns(1, ServerReviews)

ManagerSpec == Init /\ [][NextManager]_vars

(***************************************************************************)
(* create_task called on its own: constraint extraction and decomposition  *)
(* of any description.                                                     *)
(***************************************************************************)
\* what a description can offer to the patterns of ConstraintParser
SpanKinds ==
  { [pattern |-> <<TEST_COVERAGE, 1>>, span |-> "coverage above 90%",
     value |-> "90.0", long |-> FALSE],
    [pattern |-> <<TEST_COVERAGE, 2>>, span |-> "95% coverage",
     value |-> "95.0", long |-> FALSE],
    [pattern |-> <<LANGUAGE, 1>>, span |-> "in Python",
     value |-> "Python", long |-> FALSE],
    [pattern |-> <<OUTPUT_FORMAT, 1>>, span |-> "generate docs",
     value |-> "docs", long |-> FALSE],
    [pattern |-> BULLET, span |-> "handle errors", value |-> "", long |-> TRUE],
    [pattern |-> BULLET, span |-> "ok", value |-> "", long |-> FALSE],
    [pattern |-> NUMBERED, span |-> "validate input", value |-> "", long |-> TRUE] }

\* the keywords that the text of a span brings into the description
SpanWords(sp) ==
  CASE sp.span \in {"coverage above 90%", "95% coverage"} -> {"coverage"}
    [] sp.span = "generate docs" -> {"docs"}
    [] OTHER -> {}

\* the keywords a description can hold beside those of its spans
FreeWords == {"implement", "test", "readme", "api doc"}

\* a description with the given keywords and, in document order, spans
Description(words, spans) ==
  [words |-> words \cup UNION {SpanWords(spans[i]) : i \in 1..Len(spans)},
   spans |-> spans]

AnyDescriptions ==
  {Description(words, spans) :
     words \in SUBSET FreeWords, spans \in SeqsUpTo(SpanKinds, MaxSpans)}

InitCreate ==
  /\ agents = DefaultPool
  /\ max_iterations = 1
  /\ storage = [t \in TaskIds |-> None]
  /\ calls = [p \in Calls |-> IdleCall]
  /\ requests = 0
  /\ observed = None
  /\ \E d \in AnyDescriptions : probe = [phase |-> "input", description |-> d]

\* TaskManager.create_task is applied to the description: the task is
\* built, saved and returned
ProbeCreate ==
  /\ probe.phase = "input"
  /\ probe' = [probe EXCEPT !.phase = "created"]
  /\ storage' = _save_task(storage, NewTask(1, probe.description))
  /\ UNCHANGED <<agents, max_iterations, calls, requests, observed>>

\* the task create_task returned
Created == NewTask(1, probe.description)

NextCreate == ProbeCreate

CreateSpec == InitCreate /\ [][NextCreate]_vars

(***************************************************************************)
(* get_agent_for_task called on its own, on any pool.                      *)
(***************************************************************************)
RouteTexts ==
  {[prefix |-> prefix, body |-> [words |-> words, spans |-> <<>>], suffix |-> {}] :
     prefix \in {"", "Implement: ", "Create tests for: ", "Generate documentation for: "},
     words \in SUBSET {"implement", "unit test", "docs", "api doc"}}

InitRoute ==
  /\ agents \in SUBSET AgentType
  /\ max_iterations = 1
  /\ storage = [t \in TaskIds |-> None]
  /\ calls = [p \in Calls |-> IdleCall]
  /\ requests = 0
  /\ observed = None
  /\ \E text \in RouteTexts :
       probe = [phase |-> "input", text |-> text, agent |-> "not routed"]

\* AgentRegistry.get_agent_for_task is applied to the text
ProbeRoute ==
  /\ probe.phase = "input"
  /\ probe' = [probe EXCEPT !.phase = "routed",
                            !.agent = get_agent_for_task(agents, probe.text)]
  /\ UNCHANGED <<agents, max_iterations, storage, calls, requests, observed>>

NextRoute == ProbeRoute

RouteSpec == InitRoute /\ [][NextRoute]_vars


(***************************************************************************)
(* Delegated mode: without an API key the registry holds a ClaudeCodeAgent *)
(* under every type (registry.py lines 87-126), the reviewer included.     *)
(* A prompt is a text like a reviewer response: a sequence of lines, a     *)
(* line the searched vocabulary that occurs in it.                         *)
(***************************************************************************)
\* the line of a description inside a prompt
DescriptionLines(text) == << WordsIn(text) >>

\* the lines `{i}. {constraint}` of a prompt
ConstraintLines(constraints) == [i \in 1..Len(constraints) |-> {}]

\* the lines `- {key}: {value}` of a context with these keys
ContextLines(context) == [i \in 1..Cardinality(context) |-> {}]

\* the lines of the feedback text of ReviewSystem._generate_feedback, with
\* the stall note of refinement_loop.py line 188
FeedbackLines(feedback) ==
  IF feedback.header = 0
    THEN << {} >>
    ELSE << {"issue"} >>
           \o (IF feedback.critical # <<>>
                 THEN << {"critical", "issue", "must"} >>
                        \o [i \in 1..Len(feedback.critical) |->
                              feedback.critical[i].description]
                 ELSE <<>>)
           \o (IF feedback.warnings # <<>>
                 THEN << {} >>
                        \o [i \in 1..Len(feedback.warnings) |->
                              feedback.warnings[i].description]
                 ELSE <<>>)
           \o << {"issue"} >>
           \o (IF feedback.note THEN << {} >> ELSE <<>>)

\* slip: the prompt does not quote the statement it asks for
_build_review_prompt_NoMarker(task_description, output, constraints) ==
  << {}, {} >> \o task_description
    \o << {} >> \o ConstraintLines(constraints)
    \o << {} >> \o output
    \o << {"issue"}, {}, {}, {"error", "issue"}, {"missing"}, {"issue"}, {} >>

\* ReviewSystem._build_review_prompt: the heading, TASK, CONSTRAINTS, OUTPUT
\* TO REVIEW, the four questions and the two closing sentences
_build_review_prompt(task_description, output, constraints) ==
  << {}, {} >> \o task_description
    \o << {} >> \o ConstraintLines(constraints)
    \o << {} >> \o output
    \o << {"issue"}, {}, {}, {"error", "issue"}, {"missing"}, {"issue"},
          {"OUTPUT IS PERFECT", "ALL CONSTRAINTS MET"} >>

\* ClaudeCodeAgent._build_execution_prompt
_build_execution_prompt(task) ==
  << {}, {}, {} >> \o task.description
    \o (IF task.context # <<>> THEN << {} >> \o task.context ELSE <<>>)
    \o (IF task.constraints # <<>>
          THEN << {"critical", "must"} >> \o ConstraintLines(task.constraints)
          ELSE <<>>)
    \o (IF task.iteration > 0 /\ task.feedback # None
          THEN << {} >> \o FeedbackLines(task.feedback) \o << {} >>
          ELSE <<>>)
    \o << {}, {}, {}, {}, {}, {} >>

\* ClaudeCodeAgent.execute: the prompt is the output
ClaudeCodeExecute(task) ==
  [success |-> TRUE, output |-> _build_execution_prompt(task)]

\* refine_until_perfect lines 105-112: the AgentTask of the newest invocation
ExecutionTask(c) ==
  LET invocation == c.invocations[Len(c.invocations)]
  IN  [description |-> DescriptionLines(invocation.description),
       context |-> ContextLines(IF c.task = None THEN {} ELSE c.task.context),
       constraints |-> invocation.constraints,
       iteration |-> invocation.iteration,
       feedback |-> invocation.feedback]

\* validate_output lines 80-94: the AgentTask handed to the reviewer
ReviewTask(c) ==
  [description |-> _build_review_prompt(DescriptionLines(c.task_description),
                                        c.current_output, c.constraints),
   context |-> DescriptionLines(c.task_description) \o c.current_output \o << {} >>,
   constraints |-> c.constraints,
   iteration |-> c.iteration,
   feedback |-> None]

\* `await agent.execute(agent_task)` returns from a ClaudeCodeAgent
DelegatedAgentReturns(p) ==
  /\ calls[p].pc = "await_agent"
  /\ AgentReturns(p, {ClaudeCodeExecute(ExecutionTask(calls[p]))})

\* `await review_agent.execute(review_task)` returns from a ClaudeCodeAgent
DelegatedReviewReturns(p) ==
  /\ calls[p].pc = "await_review"
  /\ ReviewReturns(p, {ClaudeCodeExecute(ReviewTask(calls[p]))})

InitDelegated ==
  /\ agents = DefaultPool
  /\ max_iterations \in 1..MaxIter
  /\ storage = [t \in TaskIds |-> None]
  /\ calls = [p \in Calls |-> IdleCall]
  /\ requests = 0
  /\ probe = NoProbe
  /\ observed = None

NextDelegated ==
  \/ CreateTask
  \/ \E p \in Calls : StartExecute(p)
  \/ \E p \in Calls : StartReview(p)
  \/ \E p \in Calls : StartRefine(p)
  \/ \E p \in Calls : DelegatedAgentReturns(p)
  \/ \E p \in Calls : DelegatedReviewReturns(p)

DelegatedSpec == InitDelegated /\ [][NextDelegated]_vars


(***************************************************************************)
(* list_tasks called between writes of task files.  The modification times *)
(* of the files are kept as the order they induce: by_mtime lists the task *)
(* ids of the files, the most recently written first.                      *)
(***************************************************************************)
FileIds == 1..MaxFiles

\* list_tasks without a status filter
NoStatus == "no_status"

\* a write of the file of task_id makes it the most recently modified one
Touch(by_mtime, task_id) ==
  << task_id >> \o SelectSeq(by_mtime, LAMBDA t : t # task_id)

\* Python's files[:limit]
SliceTo(files, limit) ==
  IF limit >= 0
    THEN SubSeq(files, 1, Min(limit, Len(files)))
    ELSE SubSeq(files, 1, Max(0, Len(files) + limit))

\* Storage.list_tasks, called by TaskManager.list_tasks: of a summary the
\* task id and the status are kept
list_tasks(store, by_mtime, status, limit) ==
  LET files == SliceTo(by_mtime, limit)
      kept == SelectSeq(files,
                        LAMBDA t : status = NoStatus \/ store[t].status = status)
  IN  [i \in 1..Len(kept) |->
         [task_id |-> store[kept[i]].task_id, status |-> store[kept[i]].status]]

InitList ==
  /\ agents = DefaultPool
  /\ max_iterations = 1
  /\ storage = [t \in FileIds |-> None]
  /\ calls = [p \in Calls |-> IdleCall]
  /\ requests = 0
  /\ probe = [phase |-> "none", by_mtime |-> <<>>, status |-> NoStatus,
              limit |-> 0, tasks |-> <<>>]
  /\ observed = None

\* TaskManager.create_task writes a new file
ListCreateTask ==
  /\ \E task_id \in FileIds :
       /\ storage[task_id] = None
       /\ \A t \in FileIds : t < task_id => storage[t] # None
       /\ storage' = _save_task(storage, NewTask(task_id, DescPlain))
       /\ probe' = [probe EXCEPT !.phase = "written",
                                 !.by_mtime = Touch(@, task_id)]
  /\ UNCHANGED <<agents, max_iterations, calls, requests, observed>>

\* TaskManager.update_task_status rewrites the file of a stored task
ListUpdateTaskStatus ==
  /\ \E task_id \in FileIds, status \in {IN_PROGRESS, COMPLETED} :
       /\ storage[task_id] # None
       /\ storage' = update_task_status(storage, task_id, status)
       /\ probe' = [probe EXCEPT !.phase = "written",
                                 !.by_mtime = Touch(@, task_id)]
  /\ UNCHANGED <<agents, max_iterations, calls, requests, observed>>

\* TaskManager.list_tasks(status, limit)
CallListTasks ==
  /\ \E status \in {NoStatus, PENDING, IN_PROGRESS, COMPLETED},
        limit \in (0 - 1)..MaxFiles :
       probe' = [probe EXCEPT !.phase = "listed", !.status = status,
                              !.limit = limit,
                              !.tasks = list_tasks(storage, probe.by_mtime,
                                                   status, limit)]
  /\ UNCHANGED <<agents, max_iterations, storage, calls, requests, observed>>

NextList == ListCreateTask \/ ListUpdateTaskStatus \/ CallListTasks

ListSpec == InitList /\ [][NextList]_vars


(***************************************************************************)
(* Several refinement runs at once on one RefinementLoop: the runs         *)
(* interleave at their awaits.  The agent's output names the run it was    *)
(* produced for.                                                           *)
(***************************************************************************)
\* the output the agent produces for the run in call slot p
RunOutput(p) == IF p % 2 = 1 THEN "out_a" ELSE "out_b"

\* what the agent's execute can return to the run in call slot p
RunAgentOutputs(p) ==
  {[success |-> TRUE, output |-> RunOutput(p)],
   [success |-> FALSE, output |-> NoOutput]}

\* the reviewer's responses: no finding, a warning, a critical finding
ConcurrentReviews ==
  {[success |-> TRUE, output |-> t] : t \in {<<>>, <<{"issue"}>>, <<{"error"}>>}}

InitConcurrent ==
  /\ agents = DefaultPool
  /\ max_iterations \in 0..MaxIter
  /\ storage = [t \in TaskIds |-> None]
  /\ calls = [p \in Calls |-> IdleCall]
  /\ requests = 0
  /\ probe = NoProbe
  /\ observed = None

NextConcurrent ==
  \/ \E p \in Calls : StartRefine(p)
  \/ \E p \in Calls : AgentReturns(p, RunAgentOutputs(p))
  \/ \E p \in Calls : ReviewReturns(p, ConcurrentReviews)

ConcurrentSpec == InitConcurrent /\ [][NextConcurrent]_vars

(***************************************************************************)
(* Properties of the Refinement Loop (LoopSpec, FairLoopSpec).             *)
(***************************************************************************)
\* the direct refinement runs
Runs == {p \in Calls : calls[p].op = "refine"}
Ended(p) == calls[p].pc = "done"
\* call p is inside a refinement run: it awaits the agent or the reviewer
InFlight(p) == calls[p].pc \in {"await_agent", "await_review"}
\* the agent call of the newest invocation reported failure
AgentFailed(p) ==
  calls[p].agent_output # None /\ ~calls[p].agent_output.success
Critical(issues) == CountIf(issues, LAMBDA i : i.severity = "critical")
Warnings(issues) == CountIf(issues, LAMBDA i : i.severity = "warning")

\* C1: with max_iterations = N >= 1, whatever the agent and the reviewer
\* return, a run of refine_until_perfect whose awaited calls return comes to
\* its end, never invokes the agent more than N times, and its result has
\* total_iterations <= N.
C1_TerminatesWithinBudget ==
  /\ [](\A p \in Runs :
          max_iterations >= 1 =>
            /\ Len(calls[p].invocations) <= max_iterations
            /\ Ended(p) => calls[p].result.total_iterations <= max_iterations)
  /\ (calls[1].pc \in {"await_agent", "await_review"}) ~> Ended(1)

\* a run that spent its whole budget of MaxIter agent invocations
C1_Witness ==
  /\ Ended(1) /\ max_iterations = MaxIter
  /\ Len(calls[1].invocations) = max_iterations
  /\ calls[1].result.total_iterations = max_iterations

\* C2: success=true is returned only on an iteration whose validation is a
\* perfect match, and on the first such iteration: no agent invocation
\* follows it, total_iterations is its index + 1, final_output its output and
\* final_score its score.
C2_ConvergedOnFirstPerfect ==
  \A p \in Runs :
    /\ \A k \in 1..Len(calls[p].iterations) :
         calls[p].iterations[k].validation.perfect_match =>
           /\ k = Len(calls[p].iterations)
           /\ Ended(p) /\ calls[p].result.success
    /\ (Ended(p) /\ calls[p].result.success) =>
         LET r == calls[p].result
             n == Len(r.iterations)
         IN  /\ n >= 1
             /\ r.iterations = calls[p].iterations
             /\ r.iterations[n].validation.perfect_match
             /\ r.iterations[n].iteration = n - 1
             /\ r.total_iterations = r.iterations[n].iteration + 1
             /\ Len(calls[p].invocations) = n
             /\ r.final_output = r.iterations[n].output
             /\ r.final_score = r.iterations[n].validation.score

\* a run that converged on its second iteration
C2_Witness ==
  /\ Ended(1) /\ calls[1].result.success
  /\ calls[1].result.total_iterations = 2
  /\ ~calls[1].result.iterations[1].validation.perfect_match

\* C3: when every agent call succeeded and no validation was a perfect
\* match, the run with max_iterations = N >= 1 goes on until N iterations are
\* recorded and then returns success=false, total_iterations = N, the N
\* records, the N-th output and the score of the N-th validation.
C3_ExhaustedAfterN ==
  \A p \in Runs :
    LET log == calls[p].iterations
        n == Len(log)
    IN  (/\ max_iterations >= 1
         /\ ~AgentFailed(p)
         /\ \A k \in 1..n : ~log[k].validation.perfect_match)
        => /\ Ended(p) <=> n = max_iterations
           /\ Ended(p) =>
                /\ ~calls[p].result.success
                /\ calls[p].result.total_iterations = max_iterations
                /\ calls[p].result.iterations = log
                /\ Len(calls[p].invocations) = max_iterations
                /\ calls[p].result.final_output = log[n].output
                /\ calls[p].result.final_score = log[n].validation.score

\* a run exhausted after MaxIter iterations whose last score is not 0
C3_Witness ==
  /\ Ended(1) /\ max_iterations = MaxIter
  /\ ~calls[1].result.success
  /\ Len(calls[1].result.iterations) = MaxIter
  /\ calls[1].result.final_score.tenths > 0

\* C4: when the agent reports success=false at iteration i the run returns
\* at once with success=false and final_score=0.0, the log holds the records
\* of iterations 0..i-1, the reviewer was not invoked for iteration i and the
\* agent was invoked once per iteration 0..i.
C4_AgentFailedReturnsAtOnce ==
  \A p \in Runs :
    AgentFailed(p) =>
      LET i == calls[p].invocations[Len(calls[p].invocations)].iteration
          r == calls[p].result
      IN  /\ Ended(p)
          /\ ~r.success
          /\ r.final_score = Score(0, 0)
          /\ Len(r.iterations) = i
          /\ \A k \in 1..i : r.iterations[k].iteration = k - 1
          /\ Len(calls[p].invocations) = i + 1
          /\ \A j \in 1..(i + 1) : calls[p].invocations[j].iteration = j - 1
          /\ \A j \in 1..Len(calls[p].reviews) : calls[p].reviews[j].iteration < i

\* the agent failed at its second invocation
C4_Witness ==
  /\ Ended(1) /\ AgentFailed(1)
  /\ Len(calls[1].result.iterations) = 1
  /\ Len(calls[1].invocations) = 2

\* C5: the feedback handed to the agent at iteration i+1 (i >= 1) carries the
\* stall note iff the score of iteration i is <= the score of iteration i-1;
\* the feedback built after iteration 0 never carries it; the recorded
\* validations are as validate_output returned them.
C5_StallNote ==
  \A p \in Runs :
    LET log == calls[p].iterations
        inv == calls[p].invocations
    IN  /\ \A j \in 2..Len(inv) :
             inv[j].feedback.note <=>
               (j >= 3 /\ ScoreLeq(log[j - 1].validation.score,
                                   log[j - 2].validation.score))
        /\ \A k \in 1..Len(log) :
             /\ ~log[k].validation.feedback.note
             /\ log[k].validation.score = ScoreOf(log[k].validation.issues).score

\* the third invocation carries the note after two iterations of equal score
C5_Witness ==
  /\ Len(calls[1].invocations) = 3
  /\ calls[1].invocations[3].feedback.note
  /\ calls[1].iterations[2].validation.score = calls[1].iterations[1].validation.score

\* the review calls of run p whose agent reported failure
FailedReviews(p) ==
  {k \in 1..Len(calls[p].reviews) :
     calls[p].reviews[k].response # None /\ ~calls[p].reviews[k].response.success}

\* C19: when the review agent's call reports failure in iteration i,
\* validate_output still returns a ValidationResult and the run is not
\* aborted: the result holds the mechanical issues and no semantic issue,
\* it is recorded as the validation of iteration i, and the run goes on from
\* it (it returns it if it is a perfect match, and otherwise invokes the
\* agent again with its feedback while the budget lasts).
C19_ReviewerFailureDegrades ==
  \A p \in Runs :
    /\ FailedReviews(p) # {} => calls[p].pc # "raised"
    /\ \A k \in FailedReviews(p) :
         LET i == calls[p].reviews[k].iteration
             log == calls[p].iterations
         IN  /\ Len(log) > i
             /\ log[i + 1].iteration = i
             /\ log[i + 1].validation =
                  Conclude(MechanicalIssues(calls[p].constraints, log[i + 1].output),
                           calls[p].constraints, i)
             /\ \A n \in 1..Len(log[i + 1].validation.issues) :
                  log[i + 1].validation.issues[n].constraint # "Quality Review"
             /\ IF log[i + 1].validation.perfect_match
                  THEN /\ Ended(p)
                       /\ calls[p].result.final_score = log[i + 1].validation.score
                       /\ calls[p].result.final_output = log[i + 1].output
                  ELSE i + 1 < max_iterations =>
                         /\ Len(calls[p].invocations) > i + 1
                         /\ calls[p].invocations[i + 2].feedback.header =
                              log[i + 1].validation.feedback.header

\* the reviewer failed in the second iteration of a run
C19_Witness ==
  /\ 2 \in FailedReviews(1)
  /\ calls[1].reviews[2].iteration = 1
  /\ Len(calls[1].iterations) = 2
  /\ Ended(1)

\* C21: a run of refine_until_perfect on a loop built with max_iterations = 0
\* returns at once, without a call of an agent or of the reviewer, the
\* Exhausted result of an empty log: success=false, total_iterations=0,
\* final_score=0.0 and no final_output.
C21_ZeroBudgetIsExhausted ==
  \A p \in Runs :
    max_iterations = 0 =>
      /\ Ended(p)
      /\ calls[p].invocations = <<>>
      /\ calls[p].reviews = <<>>
      /\ calls[p].result =
           RefinementResult(FALSE, NoOutput, <<>>, 0, Score(0, 0))

\* a run on a loop with max_iterations = 0 has returned
C21_Witness ==
  /\ max_iterations = 0
  /\ 1 \in Runs /\ Ended(1)
  /\ calls[1].result.iterations = <<>>

\* C22: within one run the agent call of iteration i+1 starts after the
\* agent call and the validation of iteration i have completed (the record
\* of iteration i is in the log and its review call has returned); the
\* invocation of iteration 0 carries no feedback and the invocation of
\* iteration i+1 carries the feedback of the validation of iteration i, with
\* or without the stall note, never that of an older iteration.
C22_FeedbackFromPreviousIteration ==
  \A p \in Runs :
    LET log == calls[p].iterations
        inv == calls[p].invocations
        rev == calls[p].reviews
    IN  /\ Len(inv) <= Len(log) + 1
        /\ \A j \in 1..Len(inv) : inv[j].iteration = j - 1
        /\ inv # <<>> => inv[1].feedback = None
        /\ \A j \in 2..Len(inv) :
             /\ log[j - 1].iteration = j - 2
             /\ [inv[j].feedback EXCEPT !.note = FALSE] = log[j - 1].validation.feedback
             /\ inv[j].feedback.header = j - 1
             /\ \A k \in 1..Len(rev) :
                  rev[k].iteration <= j - 2 => rev[k].response # None

\* the third invocation of a run whose first two validations found
\* different issues
C22_Witness ==
  /\ 1 \in Runs
  /\ Len(calls[1].invocations) = 3
  /\ calls[1].iterations[1].validation.issues # calls[1].iterations[2].validation.issues
  /\ calls[1].invocations[3].feedback.critical # calls[1].invocations[2].feedback.critical


\* C24: the iteration log of a run is append-only.  Every step of the run
\* leaves the log as it is or appends one record to it, and it appends one
\* exactly when the step completed the validation of a successful agent
\* call; the log holds one record per validated iteration, the k-th record
\* (from 0) has iteration index k, and the result returns the log.
C24_LogIsAppendOnly ==
  /\ [](\A p \in Runs :
          LET log == calls[p].iterations
              open == IF InFlight(p) \/ AgentFailed(p) THEN 1 ELSE 0
          IN  /\ Len(log) = Len(calls[p].invocations) - open
              /\ \A k \in 1..Len(log) : log[k].iteration = k - 1
              /\ Ended(p) => calls[p].result.iterations = log)
  /\ [][\A p \in Runs :
          InFlight(p) =>
            LET log == calls[p].iterations
                after == calls'[p].iterations
                validated == /\ calls'[p].pc # "await_review"
                             /\ ~(/\ calls'[p].agent_output # None
                                  /\ ~calls'[p].agent_output.success)
            IN  /\ Len(after) >= Len(log)
                /\ SubSeq(after, 1, Len(log)) = log
                /\ Len(after) = Len(log) + (IF validated THEN 1 ELSE 0)]_vars

\* a log of three records with different outputs
C24_Witness ==
  /\ 1 \in Runs /\ Ended(1)
  /\ Len(calls[1].iterations) = 3
  /\ calls[1].iterations[1].output # calls[1].iterations[2].output
  /\ calls[1].iterations[2].output # calls[1].iterations[3].output


\* C28: a run returns success=true only on an iteration for which a review
\* agent was called, its call succeeded and its response held the perfect
\* marker; without a reviewer, after a failed review call or after a response
\* without the marker the run does not return success=true.
C28_ConvergedOnlyWithMarker ==
  \A p \in Runs :
    (Ended(p) /\ calls[p].result.success) =>
      \E k \in 1..Len(calls[p].reviews) :
        /\ calls[p].reviews[k].iteration = calls[p].result.total_iterations - 1
        /\ calls[p].reviews[k].response # None
        /\ calls[p].reviews[k].response.success
        /\ calls[p].reviews[k].response.says_perfect


\* C30: in every result of a run, Converged, Exhausted or AgentFailed,
\* total_iterations is the number of records of its iterations log.
C30_TotalIterationsIsLogLength ==
  \A p \in Runs :
    Ended(p) =>
      calls[p].result.total_iterations = Len(calls[p].result.iterations)

\* C30, as the code has it: in every result of a run built with
\* max_iterations >= 0, total_iterations is the number of iterations the
\* run started, that is of its agent invocations; it is the number of
\* records of the log in a Converged and in an Exhausted result, and one
\* more than that in an AgentFailed result, whose failed iteration is
\* counted and not recorded.
C30_TotalIterationsCountsInvocations ==
  \A p \in Runs :
    (Ended(p) /\ max_iterations >= 0) =>
      LET r == calls[p].result
      IN  /\ r.total_iterations = Len(calls[p].invocations)
          /\ r.total_iterations =
               Len(r.iterations) + (IF AgentFailed(p) THEN 1 ELSE 0)

\* the agent failed in the third iteration: two records, total_iterations 3
C30_Witness ==
  /\ 1 \in Runs /\ Ended(1) /\ AgentFailed(1)
  /\ Len(calls[1].result.iterations) = 2
  /\ calls[1].result.total_iterations = 3


\* C39: in every result of a run, Converged, Exhausted or AgentFailed,
\* final_output is the output of the last record of the iterations log when
\* the log is not empty, and it is None exactly when the log is empty.
C39_FinalOutputIsLastRecorded ==
  \A p \in Runs :
    Ended(p) =>
      LET r == calls[p].result
          n == Len(r.iterations)
      IN  /\ n > 0 => r.final_output = r.iterations[n].output
          /\ r.final_output = NoOutput <=> n = 0

\* the agent failed in the second iteration, after its first output was
\* recorded with findings
C39_Witness ==
  /\ 1 \in Runs /\ Ended(1) /\ AgentFailed(1)
  /\ Len(calls[1].result.iterations) = 1
  /\ calls[1].result.final_output = "out_b"
  /\ ~calls[1].result.iterations[1].validation.perfect_match

(***************************************************************************)
(* Properties of the Validation Engine (ValidateSpec).                     *)
(***************************************************************************)
Validated == probe.phase = "validated"
\* the newest response line added exactly one issue of the given severity
AddedOne(severity) ==
  /\ Validated /\ probe.before # None
  /\ Len(probe.result.issues) = Len(probe.before.issues) + 1
  /\ SubSeq(probe.result.issues, 1, Len(probe.before.issues)) = probe.before.issues
  /\ probe.result.issues[Len(probe.result.issues)].severity = severity

\* C6: every ValidationResult has perfect_match = true iff its issue list is
\* empty, with the reviewer absent, failing or returning any text.
C6_PerfectIffNoIssues ==
  Validated => (probe.result.perfect_match <=> probe.result.issues = <<>>)

\* a result with warnings only
C6_Witness ==
  /\ Validated
  /\ Warnings(probe.result.issues) >= 1 /\ Critical(probe.result.issues) = 0
  /\ ~probe.result.perfect_match

\* C7: in tenths, the score is 10 for an empty issue list and otherwise
\* max(0, 10 - 3c - w) for c critical and w warning issues; it lies in 0..10.
C7_ScoreFormula ==
  Validated =>
    LET c == Critical(probe.result.issues)
        w == Warnings(probe.result.issues)
    IN  /\ probe.result.score.tenths =
             IF probe.result.issues = <<>> THEN 10 ELSE Max(0, 10 - 3 * c - w)
        /\ probe.result.score.tenths \in 0..10

\* critical and warning issues together whose penalty exceeds 1
C7_Witness ==
  /\ Validated
  /\ Critical(probe.result.issues) >= 1 /\ Warnings(probe.result.issues) >= 1
  /\ 3 * Critical(probe.result.issues) + Warnings(probe.result.issues) > 10
  /\ probe.result.score.tenths = 0

\* C8 as claimed: one more critical issue strictly decreases the score, by
\* exactly 0.3 floored at 0, and one more warning by exactly 0.1.
C8_StrictlyDecreases ==
  /\ AddedOne("critical") =>
       /\ probe.result.score.tenths < probe.before.score.tenths
       /\ probe.result.score.tenths = Max(0, probe.before.score.tenths - 3)
  /\ AddedOne("warning") =>
       /\ probe.result.score.tenths < probe.before.score.tenths
       /\ probe.result.score.tenths = Max(0, probe.before.score.tenths - 1)

\* C8 as amended: one more critical issue takes the score (in tenths) to
\* max(0, score - 3) and one more warning to max(0, score - 1); the decrease
\* is strict whenever the score was above 0, and a score of 0 stays 0.
C8_DecreasesUntilZero ==
  /\ AddedOne("critical") =>
       /\ probe.result.score.tenths = Max(0, probe.before.score.tenths - 3)
       /\ probe.before.score.tenths > 0 =>
            probe.result.score.tenths < probe.before.score.tenths
  /\ AddedOne("warning") =>
       /\ probe.result.score.tenths = Max(0, probe.before.score.tenths - 1)
       /\ probe.before.score.tenths > 0 =>
            probe.result.score.tenths < probe.before.score.tenths

\* a critical issue added to an issue list whose score is already 0
C8_Witness ==
  /\ AddedOne("critical")
  /\ probe.before.score.tenths = 0
  /\ probe.result.score.tenths = 0

\* C9 as claimed: a result with a critical issue has a score strictly below 0.7.
C9_CriticalBelow07 ==
  (Validated /\ Critical(probe.result.issues) >= 1) =>
    (ScoreLeq(probe.result.score, Score(7, 0)) /\ probe.result.score # Score(7, 0))

\* C9 as amended: a result with a critical issue has a score of at most 0.7.
C9_CriticalAtMost07 ==
  (Validated /\ Critical(probe.result.issues) >= 1) =>
    ScoreLeq(probe.result.score, Score(7, 0))

\* exactly one critical issue and nothing else: the score is 0.7
C9_Witness ==
  /\ Validated
  /\ Critical(probe.result.issues) = 1 /\ Warnings(probe.result.issues) = 0
  /\ probe.result.score = Score(7, 0)


\* the reviewer was called and its call succeeded
Reviewed ==
  Validated /\ get_review_agent(agents) # NoAgent /\ probe.review_output.success

\* the issues of the result that come from the reviewer's response
SemanticIssues ==
  SelectSeq(probe.result.issues, LAMBDA i : i.constraint = "Quality Review")

\* the lines of the response that hold problem vocabulary
ProblemLines ==
  {n \in 1..Len(probe.review_output.output) :
     probe.review_output.output[n] \cap
       {"error", "issue", "problem", "missing", "incorrect"} # {}}

\* the k-th of them, in the order of the text
NthProblemLine(k) ==
  CHOOSE n \in ProblemLines : Cardinality({j \in ProblemLines : j < n}) = k - 1

\* C33: when the reviewer's text holds the perfect marker no semantic issue
\* is added, whatever else it holds; otherwise there is exactly one issue
\* per line with problem vocabulary, in the order of the lines, critical if
\* the line also holds urgency vocabulary (error, must, critical) and a
\* warning otherwise; a line without problem vocabulary yields no issue and
\* no issue has severity info.
C33_ReviewParsing ==
  Reviewed =>
    LET text == probe.review_output.output
        marked == \E n \in 1..Len(text) :
                    text[n] \cap {"OUTPUT IS PERFECT", "ALL CONSTRAINTS MET"} # {}
    IN  /\ marked => SemanticIssues = <<>>
        /\ ~marked =>
             /\ Len(SemanticIssues) = Cardinality(ProblemLines)
             /\ \A k \in 1..Len(SemanticIssues) :
                  /\ SemanticIssues[k].description = text[NthProblemLine(k)]
                  /\ SemanticIssues[k].severity =
                       IF text[NthProblemLine(k)] \cap {"error", "must", "critical"} # {}
                         THEN "critical" ELSE "warning"
        /\ \A k \in 1..Len(probe.result.issues) :
             probe.result.issues[k].severity \in {"critical", "warning"}

\* a response of a warning line, a line with urgency vocabulary only and a
\* critical line: two issues
C33_Witness ==
  /\ Reviewed
  /\ probe.review_output.output = << {"issue"}, {"must"}, {"missing", "must"} >>
  /\ Len(probe.result.issues) = 2

\* C34: no constraint fails the mechanical check, whatever the output: no
\* issue of a result comes from a constraint, and the issue list, the score
\* and perfect_match of the result are those that the same reviewer response
\* yields for any output and an empty constraint list.
C34_MechanicalCheckAlwaysPasses ==
  Validated =>
    /\ \A k \in 1..Len(probe.result.issues) :
         probe.result.issues[k].constraint = "Quality Review"
    /\ \A output \in Outputs :
         LET alone == validate_output(output, <<>>, 0, probe.review_output)
         IN  /\ probe.result.issues = alone.issues
             /\ probe.result.score = alone.score
             /\ probe.result.perfect_match = alone.perfect_match

\* a result for a non-empty constraint list that is a perfect match
C34_Witness ==
  /\ Validated
  /\ probe.constraints # <<>>
  /\ probe.constraints[1].type = TEST_COVERAGE
  /\ probe.result.perfect_match
  /\ probe.result.score = Score(10, 0)

(***************************************************************************)
(* Properties of the Task Orchestrator (Spec).                             *)
(***************************************************************************)
LegalTransition(old, new) ==
  \/ new = old
  \/ <<old, new>> \in {<<PENDING, IN_PROGRESS>>, <<IN_PROGRESS, COMPLETED>>,
                       <<IN_PROGRESS, FAILED>>}
  \/ new = CANCELLED

\* C10: every change of a stored Task or Subtask status is pending ->
\* in_progress, in_progress -> completed, in_progress -> failed or any ->
\* cancelled; a completed, failed or cancelled status never changes again.
C10_LegalStatusTransitions ==
  [][\A t \in TaskIds :
       storage[t] # None =>
         /\ LegalTransition(storage[t].status, storage'[t].status)
         /\ \A i \in 1..Len(storage[t].subtasks) :
              LegalTransition(storage[t].subtasks[i].status,
                              storage'[t].subtasks[i].status)]_vars

\* call p has just returned from an execute_task that found its task
Executed(p) ==
  /\ calls[p] # calls'[p]
  /\ calls'[p].op = "execute_task"
  /\ calls'[p].pc = "done" /\ calls'[p].response = "executed"

\* C11: when an execute_task call finishes, the stored status of its task is
\* completed if the stored status of every subtask is completed and failed
\* otherwise; it is not pending and not in_progress.
C11_FinalStatusFromSubtasks ==
  [][\A p \in Calls :
       Executed(p) =>
         LET task == storage'[calls'[p].task_id]
         IN  /\ task.status =
                  IF \A i \in 1..Len(task.subtasks) :
                       task.subtasks[i].status = COMPLETED
                    THEN COMPLETED ELSE FAILED
             /\ task.status \notin {PENDING, IN_PROGRESS}]_vars

\* an execution that ended failed with one subtask completed and one failed
C11_Witness ==
  \E p \in Calls, t \in TaskIds :
    /\ calls[p].op = "execute_task" /\ calls[p].response = "executed"
    /\ calls[p].task_id = t /\ storage[t] # None
    /\ storage[t].status = FAILED
    /\ \E i, j \in 1..Len(storage[t].subtasks) :
         /\ storage[t].subtasks[i].status = COMPLETED
         /\ storage[t].subtasks[j].status = FAILED


\* C23: when tool calls interleave at their awaits, no two refinement runs
\* are in flight at once for the same task: tool calls that are inside a run
\* at the same time work on different tasks.
C23_OneRunPerTask ==
  \A p, q \in Calls :
    (p # q /\ InFlight(p) /\ InFlight(q)) => calls[p].task_id # calls[q].task_id


\* the tool calls on task t have all returned, an execute_task and a
\* review_and_iterate among them
BothFinished(t) ==
  /\ \A p \in Calls : Free(p)
  /\ \E p \in Calls :
       /\ calls[p].op = "execute_task" /\ calls[p].task_id = t
       /\ calls[p].response = "executed"
  /\ \E p \in Calls :
       /\ calls[p].op = "review_and_iterate" /\ calls[p].task_id = t
       /\ calls[p].response = "refined"

\* C31: after an execute_task call and a review_and_iterate call on the
\* same task have both finished, overlapping or not, the stored task has the
\* statuses that execute_task wrote: the task and every subtask are
\* completed or failed, the task completed exactly if every subtask is.
C31_ReviewKeepsExecuteWrites ==
  \A t \in TaskIds :
    BothFinished(t) =>
      /\ storage[t].status = FinalStatus(storage[t])
      /\ \A i \in 1..Len(storage[t].subtasks) :
           storage[t].subtasks[i].status \in {COMPLETED, FAILED}

\* C32: in every stored state, under any interleaving of the tool calls, a
\* task whose status is completed has every subtask in status completed.
C32_CompletedTaskHasCompletedSubtasks ==
  \A t \in TaskIds :
    (storage[t] # None /\ storage[t].status = COMPLETED) =>
      \A i \in 1..Len(storage[t].subtasks) :
        storage[t].subtasks[i].status = COMPLETED

(***************************************************************************)
(* Properties of one execute_task call at a time (SeqSpec).                *)
(***************************************************************************)
InProgress(task) ==
  {i \in 1..Len(task.subtasks) : task.subtasks[i].status = IN_PROGRESS}

\* C12: within one execute_task call refine_until_perfect is run once per
\* subtask in the order of the task's subtask list; when the run of subtask
\* k+1 starts (the subtask is in_progress, its agent is invoked) the run of
\* subtask k has returned and its status (completed or failed) and output are
\* stored; never are two subtasks of a task in_progress.
C12_OneSubtaskAtATime ==
  /\ \A t \in TaskIds : storage[t] # None => Cardinality(InProgress(storage[t])) <= 1
  /\ observed # None =>
       LET st == FindSubtask(storage[observed.task_id], observed.subtask_id)
       IN  /\ st.status = IF observed.value THEN COMPLETED ELSE FAILED
           /\ observed.final_output # NoOutput => st.output = observed.final_output
  /\ \A p \in Calls :
       (calls[p].op = "execute_task" /\ calls[p].response # "not_found") =>
         LET task == storage[calls[p].task_id]
             runs == calls[p].runs
             n == Len(runs)
         IN  /\ n <= Len(task.subtasks)
             /\ \A k \in 1..n : runs[k].subtask_id = task.subtasks[k].id
             /\ \A k \in 1..(n - 1) : runs[k].returned
             /\ \A k \in 1..n :
                  runs[k].returned => task.subtasks[k].status \in {COMPLETED, FAILED}
             /\ calls[p].pc = "done" => n = Len(task.subtasks) /\ runs[n].returned
             /\ calls[p].pc # "done" =>
                  /\ n >= 1 /\ ~runs[n].returned
                  /\ task.subtasks[n].status = IN_PROGRESS
                  /\ \A j \in 1..Len(calls[p].invocations) :
                       calls[p].invocations[j].description = task.subtasks[n].description
                  /\ Len(calls[p].all_outputs) = n - 1
                  /\ \A k \in 1..(n - 1) :
                       /\ task.subtasks[k].status =
                            IF calls[p].all_outputs[k].success THEN COMPLETED ELSE FAILED
                       /\ task.subtasks[k].output = calls[p].all_outputs[k].output

\* the agent is invoked for the second subtask, the first one is stored as
\* failed with its output
C12_Witness ==
  /\ calls[1].op = "execute_task" /\ calls[1].pc = "await_agent"
  /\ Len(calls[1].runs) = 2
  /\ storage[1].subtasks[1].status = FAILED
  /\ storage[1].subtasks[1].output = "out_a"
  /\ storage[1].subtasks[2].status = IN_PROGRESS

StoredSubtask(store, task_id, subtask_id) ==
  FindSubtask(store[task_id], subtask_id)

\* C13: when the refinement run of a subtask returns, refine_subtask stores
\* the subtask as completed and returns True exactly when the result has
\* success = true or final_score >= 0.8, and otherwise stores it as failed
\* and returns False; so a score below 0.8 fails the subtask, an exhausted
\* run whose last iteration has no critical issue and at most two warnings
\* completes it, and a run ended by a failed agent call fails it.
C13_AcceptanceThreshold ==
  observed # None =>
    LET run == observed
        st == StoredSubtask(storage, run.task_id, run.subtask_id)
        good == run.success \/ ScoreGeq(run.final_score, Score(8, 0))
    IN  /\ st.status = IF good THEN COMPLETED ELSE FAILED
        /\ run.value = good
        /\ (~run.success /\ ~ScoreGeq(run.final_score, Score(8, 0))) =>
             (st.status = FAILED /\ ~run.value)
        /\ (~run.success /\ ~run.agent_failed /\ run.critical = 0
              /\ run.warnings <= 2) =>
             (st.status = COMPLETED /\ run.value)
        /\ run.agent_failed => (st.status = FAILED /\ ~run.value)

\* an exhausted run with two warnings (score 0.8) completed its subtask
C13_Witness ==
  /\ observed # None
  /\ ~observed.success /\ ~observed.agent_failed
  /\ observed.critical = 0 /\ observed.warnings = 2
  /\ observed.final_score = Score(8, 0)
  /\ observed.value
  /\ StoredSubtask(storage, observed.task_id, observed.subtask_id).status = COMPLETED


\* C27: a stored task read back with get_task holds the constraint list
\* that was extracted from its description at creation, and every agent
\* invocation that execute_task makes for a subtask carries that list.
C27_ConstraintsSurviveReload ==
  /\ \A t \in TaskIds :
       storage[t] # None =>
         get_task(storage, t).constraints = Parse(storage[t].description.body)
  /\ \A p \in Calls :
       calls[p].op = "execute_task" =>
         \A k \in 1..Len(calls[p].invocations) :
           calls[p].invocations[k].constraints =
             Parse(storage[calls[p].task_id].description.body)


\* C29: every agent that execute_task invokes for a subtask is the agent
\* registered under the subtask's agent_type.
C29_AgentMatchesSubtaskType ==
  \A p \in Calls :
    calls[p].op = "execute_task" =>
      \A k \in 1..Len(calls[p].invocations) :
        calls[p].invocations[k].agent =
          StoredSubtask(storage, calls[p].task_id, calls[p].subtask_id).agent_type


\* C35: execute_task persists the task's status in_progress before a
\* subtask changes status; refine_subtask persists the subtask's status
\* in_progress before the first agent invocation for it, and sets it to
\* completed or failed once, in the step in which the refinement run for it
\* returns and not before.
C35_InProgressBeforeWork ==
  /\ [](\A p \in Calls :
          (calls[p].op = "execute_task" /\ InFlight(p)) =>
            /\ storage[calls[p].task_id].status = IN_PROGRESS
            /\ StoredSubtask(storage, calls[p].task_id, calls[p].subtask_id).status
                 = IN_PROGRESS)
  /\ [][\A t \in TaskIds :
          (storage[t] # None /\ storage'[t] # None) =>
            LET old == storage[t].subtasks
                new == storage'[t].subtasks
                returned(i) == /\ observed' # None
                               /\ observed'.task_id = t
                               /\ observed'.subtask_id = new[i].id
            IN  /\ (\E i \in 1..Len(old) : old[i].status # new[i].status) =>
                     IN_PROGRESS \in {storage[t].status, storage'[t].status}
                /\ \A i \in 1..Len(old) :
                     /\ (/\ new[i].status \in {COMPLETED, FAILED}
                         /\ old[i].status # new[i].status \/ old[i].output # new[i].output)
                        => (old[i].status = IN_PROGRESS /\ returned(i))
                     /\ returned(i) =>
                          /\ old[i].status = IN_PROGRESS
                          /\ new[i].status =
                               IF observed'.value THEN COMPLETED ELSE FAILED]_vars

\* the first of two subtasks was set to failed when its run returned, and
\* the second one is in progress
C35_Witness ==
  /\ observed # None /\ ~observed.value
  /\ storage[observed.task_id].status = IN_PROGRESS
  /\ Len(storage[observed.task_id].subtasks) = 2
  /\ storage[observed.task_id].subtasks[1].status = FAILED
  /\ storage[observed.task_id].subtasks[2].status = IN_PROGRESS

(***************************************************************************)
(* Properties of review_and_iterate (Spec).                                *)
(***************************************************************************)
\* C14: every agent invocation of a review_and_iterate call carries the
\* constraint list extracted from the task's description when the task was
\* created.
C14_ReviewReusesConstraints ==
  \A p \in Calls :
    calls[p].op = "review_and_iterate" =>
      \A k \in 1..Len(calls[p].invocations) :
        calls[p].invocations[k].constraints =
          Parse(storage[calls[p].task_id].description.body)

(***************************************************************************)
(* Properties of requests with ids that are not stored (ManagerSpec).      *)
(***************************************************************************)
\* the task, or the subtask of the task, is not in storage
Unknown(store, task_id, subtask_id, with_subtask) ==
  \/ load_task(store, task_id) = None
  \/ with_subtask /\ FindSubtask(get_task(store, task_id), subtask_id) = None

\* a TaskManager operation was called in this step
ManagerCalled == probe' # probe /\ probe'.phase = "called"

\* call p was received in this step (it may have returned at once, with the
\* response the call before it in the slot had)
Received(p) ==
  /\ requests' # requests /\ probe' = probe
  /\ Free(p)
  /\ calls'[p] # calls[p] \/ (calls' = calls /\ calls[p].pc = "done")

\* C20: get_task, update_task_status, update_subtask, refine_subtask,
\* execute_task and review_and_iterate, called with a task id (or subtask
\* id) that is not in storage, return None, False or the not-found message,
\* do not raise, invoke no agent (the call returns without suspending) and
\* leave storage as it was.
C20_UnknownIdsAreRejected ==
  [][/\ (ManagerCalled /\ Unknown(storage, probe'.task_id, probe'.subtask_id,
                                   probe'.op = "update_subtask")) =>
          /\ probe'.returned_task = None
          /\ ~probe'.returned_flag
          /\ storage' = storage
     /\ \A p \in Calls :
          (Received(p) /\ Unknown(storage, calls'[p].task_id, calls'[p].subtask_id,
                                  calls'[p].op = "refine_subtask")) =>
            /\ calls'[p].pc = "done"
            /\ calls'[p].response =
                 IF calls'[p].op = "refine_subtask" THEN "False" ELSE "not_found"
            /\ storage' = storage]_vars

\* update_subtask returned False for a stored task and an unknown subtask id
C20_Witness ==
  /\ probe.phase = "called" /\ probe.op = "update_subtask"
  /\ probe.task_id \in TaskIds /\ storage[probe.task_id] # None
  /\ FindSubtask(storage[probe.task_id], probe.subtask_id) = None
  /\ ~probe.returned_flag


\* C26: read-your-writes on task storage.  get_task with the id of the task
\* that create_task has just returned yields a task with the same id,
\* description, status and subtasks; after an update_task_status(id, s) that
\* returned True, get_task(id) yields the task that get_task(id) yielded
\* before it with status s and every other field as it was.
C26_ReadYourWrites ==
  [][/\ (probe' # probe /\ probe'.phase = "created") =>
          LET task == probe'.returned_task
              got == get_task(storage', task.task_id)
          IN  /\ got # None
              /\ got.task_id = task.task_id
              /\ got.description = task.description
              /\ got.status = task.status
              /\ got.subtasks = task.subtasks
     /\ (/\ ManagerCalled
         /\ probe'.op = "update_task_status"
         /\ probe'.returned_flag) =>
          LET before == get_task(storage, probe'.task_id)
              after == get_task(storage', probe'.task_id)
          IN  /\ before # None /\ after # None
              /\ after.status = probe'.status
              /\ after = [before EXCEPT !.status = probe'.status]]_vars

\* the status of an executed task, which holds a context and the output of
\* a subtask, was updated to cancelled
C26_Witness ==
  /\ probe.phase = "called" /\ probe.op = "update_task_status"
  /\ probe.returned_flag /\ probe.status = CANCELLED
  /\ storage[probe.task_id].status = CANCELLED
  /\ storage[probe.task_id].context # {}
  /\ \E i \in 1..Len(storage[probe.task_id].subtasks) :
       storage[probe.task_id].subtasks[i].output # NoOutput

(***************************************************************************)
(* Properties of decomposition and constraint extraction (CreateSpec).     *)
(***************************************************************************)
WasCreated == probe.phase = "created"

\* the keyword families found in the description
HasCoding == WordsIn(PlainText(probe.description)) \cap CodingWords # {}
HasTesting == WordsIn(PlainText(probe.description)) \cap TestingWords # {}
HasDocumentation == WordsIn(PlainText(probe.description)) \cap DecomposerDocWords # {}

\* C15: in the subtask list of every created task each dependency is the id
\* of a subtask that stands strictly earlier in the list (no self reference,
\* no forward reference, no unknown id), and the ids are pairwise distinct.
C15_DependenciesPointBackwards ==
  WasCreated =>
    LET subtasks == Created.subtasks
    IN  /\ \A k \in 1..Len(subtasks) :
             \A n \in 1..Len(subtasks[k].dependencies) :
               \E j \in 1..(k - 1) : subtasks[j].id = subtasks[k].dependencies[n]
        /\ \A j, k \in 1..Len(subtasks) : subtasks[j].id = subtasks[k].id => j = k

\* coding, testing and documentation subtasks, the last one depending on both
C15_Witness ==
  /\ WasCreated
  /\ Len(Created.subtasks) = 3
  /\ Len(Created.subtasks[3].dependencies) = 2
  /\ Len(Created.subtasks[2].dependencies) = 1
  /\ storage[1].subtasks[3].dependencies = Created.subtasks[3].dependencies

\* C16: decomposition emits, in this order, a coding subtask without
\* dependencies iff coding keywords are present, a testing subtask iff
\* testing keywords are present, depending on the coding subtask if there is
\* one and on nothing otherwise, a documentation subtask iff documentation
\* keywords are present, depending on every subtask emitted before it; and
\* exactly one general subtask without dependencies that carries the
\* description itself iff no family is present.  "Implement a function"
\* gives exactly one coding subtask.
C16_DecompositionByKeywords ==
  WasCreated =>
    LET subtasks == Created.subtasks
        types == [k \in 1..Len(subtasks) |-> subtasks[k].agent_type]
        ids == [k \in 1..Len(subtasks) |-> subtasks[k].id]
        expected == (IF HasCoding THEN <<CODING>> ELSE <<>>)
                      \o (IF HasTesting THEN <<TESTING>> ELSE <<>>)
                      \o (IF HasDocumentation THEN <<DOCUMENTATION>> ELSE <<>>)
    IN  /\ types = IF expected = <<>> THEN <<GENERAL>> ELSE expected
        /\ \A k \in 1..Len(subtasks) :
             /\ subtasks[k].agent_type = CODING => subtasks[k].dependencies = <<>>
             /\ subtasks[k].agent_type = TESTING =>
                  subtasks[k].dependencies = IF HasCoding THEN <<ids[1]>> ELSE <<>>
             /\ subtasks[k].agent_type = DOCUMENTATION =>
                  subtasks[k].dependencies = SubSeq(ids, 1, k - 1)
             /\ subtasks[k].agent_type = GENERAL =>
                  /\ subtasks[k].dependencies = <<>>
                  /\ subtasks[k].description = PlainText(probe.description)
        /\ probe.description = DescCode =>
             (Len(subtasks) = 1 /\ subtasks[1].agent_type = CODING
                /\ subtasks[1].dependencies = <<>>)

\* coding and testing keywords: a coding subtask, then a testing subtask
\* that depends on it
C16_Witness ==
  /\ WasCreated
  /\ HasCoding /\ HasTesting /\ ~HasDocumentation
  /\ Len(Created.subtasks) = 2
  /\ Created.subtasks[2].agent_type = TESTING
  /\ Created.subtasks[2].dependencies = <<Created.subtasks[1].id>>

\* the spans of the description that a pattern of the table matches
IsListSpan(sp) == sp.pattern \in {BULLET, NUMBERED}

\* C18: the extracted constraint list is the pattern-derived constraints in
\* the order of the pattern table, followed by the custom constraints of the
\* bullet and numbered lines in the order the lines stand in the document.
C18_ListConstraintsInDocumentOrder ==
  WasCreated =>
    LET spans == probe.description.spans
        OfPattern(i) == SelectSeq(spans, LAMBDA sp : sp.pattern = PATTERNS[i])
        fromPatterns == Flatten([i \in 1..Len(PATTERNS) |->
                                   [k \in 1..Len(OfPattern(i)) |->
                                      Constraint(PATTERNS[i][1], OfPattern(i)[k].span,
                                                 OfPattern(i)[k].value)]])
        lines == SelectSeq(spans, LAMBDA sp : IsListSpan(sp) /\ sp.long)
        fromLines == [k \in 1..Len(lines) |-> Constraint(CUSTOM, lines[k].span, "")]
    IN  Created.constraints = fromPatterns \o fromLines


\* C25: for every description create_task returns a task whose status is
\* pending and whose subtask list is not empty, every subtask pending and
\* without output; the task is persisted as returned, and no agent is
\* invoked by the creation.
C25_CreatedTaskIsPending ==
  WasCreated =>
    /\ Created.status = PENDING
    /\ Created.output = None
    /\ Created.subtasks # <<>>
    /\ \A k \in 1..Len(Created.subtasks) :
         /\ Created.subtasks[k].status = PENDING
         /\ Created.subtasks[k].output = NoOutput
    /\ storage[Created.task_id] = _task_to_dict(Created)
    /\ storage[Created.task_id].status = PENDING
    /\ \A p \in Calls : calls[p] = IdleCall

\* a task created from a description without a keyword of the decomposer,
\* which holds constraints
C25_Witness ==
  /\ WasCreated
  /\ ~HasCoding /\ ~HasTesting /\ ~HasDocumentation
  /\ Created.constraints # <<>>
  /\ Len(Created.subtasks) = 1
  /\ storage[1] # None

(***************************************************************************)
(* Properties of the agent registry (RouteSpec).                           *)
(***************************************************************************)
Routed == probe.phase = "routed"

\* C17: get_agent_for_task looks for testing, then documentation, then
\* coding keywords and returns the agent of the first capability whose
\* keywords occur and whose agent is registered and can handle the task;
\* otherwise the general agent; if there is none, some registered agent; it
\* raises only when no agent is registered at all.
C17_RoutingOrder ==
  Routed =>
    LET words == WordsIn(probe.text)
        wanted == (IF words \cap TestingWords # {} THEN <<TESTING>> ELSE <<>>)
                    \o (IF words \cap RouterDocWords # {} THEN <<DOCUMENTATION>> ELSE <<>>)
                    \o (IF words \cap CodingWords # {} THEN <<CODING>> ELSE <<>>)
        usable == SelectSeq(wanted, LAMBDA t : t \in agents /\ can_handle(t, probe.text))
    IN  /\ usable # <<>> => probe.agent = Head(usable)
        /\ (usable = <<>> /\ GENERAL \in agents) => probe.agent = GENERAL
        /\ (usable = <<>> /\ GENERAL \notin agents /\ agents # {}) =>
             probe.agent \in agents
        /\ probe.agent = NoAgent <=> agents = {}

\* testing and coding keywords, no testing agent: the coding agent is chosen
C17_Witness ==
  /\ Routed
  /\ WordsIn(probe.text) \cap TestingWords # {}
  /\ WordsIn(probe.text) \cap CodingWords # {}
  /\ TESTING \notin agents /\ CODING \in agents
  /\ probe.agent = CODING


(***************************************************************************)
(* Properties of delegated mode (DelegatedSpec).                           *)
(***************************************************************************)
\* C37: when every agent, the reviewer included, is a ClaudeCodeAgent, a
\* run of refine_until_perfect with max_iterations >= 1 invokes the agent
\* once and returns Converged with total_iterations 1 and final_score 1.0,
\* because the reviewer's echo of its prompt holds the perfect marker; no
\* run ends AgentFailed or Exhausted, and every executed subtask is stored
\* as completed.
C37_DelegatedConvergesAtOnce ==
  /\ \A p \in Calls :
       /\ Len(calls[p].invocations) <= 1
       /\ calls[p].pc # "raised"
       /\ \A k \in 1..Len(calls[p].reviews) :
            calls[p].reviews[k].response # None =>
              calls[p].reviews[k].response.says_perfect
       /\ (calls[p].op = "refine" /\ Ended(p)) =>
            /\ calls[p].result.success
            /\ calls[p].result.total_iterations = 1
            /\ Len(calls[p].result.iterations) = 1
            /\ calls[p].result.final_score = Score(10, 0)
  /\ observed # None =>
       /\ observed.success /\ ~observed.agent_failed
       /\ observed.final_score = Score(10, 0)
       /\ observed.value
       /\ StoredSubtask(storage, observed.task_id, observed.subtask_id).status
            = COMPLETED
  /\ \A t \in TaskIds :
       storage[t] # None =>
         \A i \in 1..Len(storage[t].subtasks) :
           storage[t].subtasks[i].status # FAILED

\* with a budget of three iterations, a direct run has converged after one
\* and an execute_task call has completed the second subtask of its task
C37_Witness ==
  /\ max_iterations = MaxIter
  /\ \E p \in Calls :
       /\ calls[p].op = "refine" /\ Ended(p)
       /\ calls[p].result.success /\ calls[p].result.total_iterations = 1
  /\ observed # None /\ observed.subtask_id = 2 /\ observed.value
  /\ StoredSubtask(storage, observed.task_id, 2).status = COMPLETED


(***************************************************************************)
(* Properties of list_tasks (ListSpec).                                    *)
(***************************************************************************)
\* the stored tasks with the status, the most recently written first
Matching(status) ==
  SelectSeq(probe.by_mtime, LAMBDA t : storage[t].status = status)

\* C38: list_tasks(status=s, limit=n) returns the min(n, m) most recently
\* updated of the m stored tasks whose status is s: no task with status s
\* is left out while fewer than n tasks are returned.
C38_ListReturnsNewestMatching ==
  (probe.phase = "listed" /\ probe.status # NoStatus /\ probe.limit >= 0) =>
    LET matching == Matching(probe.status)
        n == Min(probe.limit, Len(matching))
    IN  /\ Len(probe.tasks) = n
        /\ \A i \in 1..n : probe.tasks[i].task_id = matching[i]


(***************************************************************************)
(* Properties of concurrent refinement runs (ConcurrentSpec).              *)
(***************************************************************************)
\* C36: refinement runs that overlap on one RefinementLoop do not share
\* their iteration counts or logs: in every interleaving the agent
\* invocations of a run carry the iteration indices 0, 1, 2, ... in order,
\* a run makes at most max_iterations invocations, and the log of a run
\* holds the records of that run only, one per validated invocation.
C36_RunsDoNotShareCounters ==
  \A p \in Runs :
    /\ Len(calls[p].invocations) <= max_iterations
    /\ \A k \in 1..Len(calls[p].invocations) :
         calls[p].invocations[k].iteration = k - 1
    /\ Len(calls[p].iterations) <= Len(calls[p].invocations)
    /\ Len(calls[p].invocations) <= Len(calls[p].iterations) + 1
    /\ \A k \in 1..Len(calls[p].iterations) :
         /\ calls[p].iterations[k].iteration = k - 1
         /\ calls[p].iterations[k].output = RunOutput(p)
    /\ Ended(p) =>
         /\ calls[p].result.iterations = calls[p].iterations
         /\ calls[p].result.final_output \in {RunOutput(p), NoOutput}

\* two runs overlap in different iterations: the first awaits its third
\* agent call with two records in its log while the second, started later,
\* awaits the review of its first output
C36_Witness ==
  /\ calls[1].op = "refine" /\ calls[2].op = "refine"
  /\ calls[1].pc = "await_agent" /\ Len(calls[1].invocations) = 3
  /\ Len(calls[1].iterations) = 2
  /\ calls[2].pc = "await_review" /\ Len(calls[2].invocations) = 1
  /\ calls[2].current_output = RunOutput(2)

====
